---- MODULE Spec2Model ----
(***************************************************************************)
(* Model of the EnergyOptimizer dispatch decision engine.                  *)
(*                                                                         *)
(* Units.  Powers are integers in kW.  The code multiplies a power by      *)
(* 0.25 h to get an energy in kWh and divides an energy by 0.25 to get a   *)
(* power; here energies are held in quarter-kWh (kW x one slot), so that   *)
(* "p * 0.25" kWh is the number p and "e / 0.25" kW is the number e.       *)
(* Durations (runtimes, minimum runtimes) are held in quarter-hours, so    *)
(* "runtime += 0.25" is "+ 1".  SoC is a percentage; SocEnergy converts a  *)
(* percentage to energy with the configured capacity.  Values that the     *)
(* code computes by a true division (proportional shares) are exact        *)
(* rationals <<numerator, denominator>>.                                   *)
(* Sequences are 1-based: the code's index i is element i + 1 (At).        *)
(***************************************************************************)
EXTENDS Integers, Sequences, FiniteSets, TLC

VARIABLES
    engine,     \* entry point driven by the run: "controlCycle",
                \* "cost_optimization", "peak_shaving" or "BatterySimulator"
    config,     \* SiteEnergyConfig
    data,       \* the series (optimizedData): Seq of SimulationDataPoint
    slot,       \* loop counter of the run (next slot to process)
    decision,   \* ControlDecision emitted for the last processed slot
    base,       \* what the last cycle saw and decided before enforcement
    loadStates, \* load-state store (localStorage record list)
    simulator   \* the interval-driven BatterySimulator component of storage.ts

vars == <<engine, config, data, slot, decision, base, loadStates, simulator>>

\* ----------------------------------------------------------------- bounds
\* fixed-data.ts has 96 simulated slots and 48 forecast slots
SIMULATION_SLOTS == 2
FORECAST_SLOTS == 1
\* the slot effect of the interval-driven simulator re-runs without end while
\* a run is on; the model follows it this many times per slot
MaxEffectRuns == 2

TOTAL_SLOTS == SIMULATION_SLOTS + FORECAST_SLOTS

\* ------------------------------------------------------ program constants
SlotsPerHour == 4
ForecastHorizon == 48
ReservationLookahead == 32
DischargeLookahead == 12
MinutesPerSlot == 15
HoursPerDay == 24

\* ---------------------------------------------------------------- helpers
Min2(a, b) == IF a <= b THEN a ELSE b
Max2(a, b) == IF a >= b THEN a ELSE b
Min3(a, b, c) == Min2(a, Min2(b, c))
Abs(a) == IF a < 0 THEN -a ELSE a
At(s, i) == s[i + 1]
\* Math.ceil(a / b) for b > 0
CeilDiv(a, b) == -((-a) \div b)
\* Array.prototype.slice(from, to) with 0-based, end-exclusive indices
Slice(s, from, to) == SubSeq(s, from + 1, Min2(to, Len(s)))

\* exact rationals <<n, d>> with d > 0, in lowest terms
RECURSIVE Gcd(_, _)
Gcd(a, b) == IF b = 0 THEN a ELSE Gcd(b, a % b)
Rat(n, d) ==
    LET g == Gcd(Abs(n), Abs(d))
        sgn == IF d < 0 THEN -1 ELSE 1
    IN IF n = 0 THEN <<0, 1>> ELSE <<sgn * (n \div g), sgn * (d \div g)>>
RInt(n) == <<n, 1>>
RAdd(x, y) == Rat(x[1] * y[2] + y[1] * x[2], x[2] * y[2])
RSub(x, y) == Rat(x[1] * y[2] - y[1] * x[2], x[2] * y[2])
RMul(x, y) == Rat(x[1] * y[1], x[2] * y[2])
RDiv(x, y) == Rat(x[1] * y[2], x[2] * y[1])
RLe(x, y) == x[1] * y[2] <= y[1] * x[2]
RLt(x, y) == x[1] * y[2] < y[1] * x[2]
RMin(x, y) == IF RLe(x, y) THEN x ELSE y
RMax(x, y) == IF RLe(x, y) THEN y ELSE x
RNeg(x) == <<-x[1], x[2]>>

RECURSIVE SumSeq(_)
SumSeq(s) == IF s = <<>> THEN 0 ELSE Head(s) + SumSeq(Tail(s))

\* (pct / 100) * batteryCapacity, in quarter-kWh
SocEnergy(pct, cfg) == (pct * cfg.batteryCapacity * SlotsPerHour) \div 100

\* a reason string: a sequence of fragments <<text, number>>
Txt(t) == << <<t, 0>> >>
TxtN(t, n) == << <<t, n>> >>

\* time of the i-th slot of a series that starts at quarter-hour q of day 0
SlotTime(q) ==
    [day |-> q \div (HoursPerDay * SlotsPerHour),
     hour |-> (q \div SlotsPerHour) % HoursPerDay,
     minute |-> (q % SlotsPerHour) * MinutesPerSlot]

\* ------------------------------------------- optimization-algorithm.ts
getPvInverterGeneration(dataPoint, inverterId) ==
    LET gens == dataPoint.pvInverterGenerations
        hits == {k \in 1..Len(gens) : gens[k].inverterId = inverterId}
    IN IF hits = {} THEN 0
       ELSE gens[CHOOSE k \in hits : \A j \in hits : k <= j].generation

RECURSIVE AffordableSum(_, _, _, _)
AffordableSum(dataPoint, inverters, priceThreshold, k) ==
    IF k > Len(inverters) THEN 0
    ELSE (IF ~inverters[k].hasPrice \/ inverters[k].pricePerMWh < priceThreshold
          THEN getPvInverterGeneration(dataPoint, inverters[k].id) ELSE 0)
         + AffordableSum(dataPoint, inverters, priceThreshold, k + 1)

getAffordablePvGeneration(dataPoint, cfg, priceThreshold) ==
    AffordableSum(dataPoint, cfg.pvInverters, priceThreshold, 1)

RECURSIVE ExpensiveSum(_, _, _, _)
ExpensiveSum(dataPoint, inverters, priceThreshold, k) ==
    IF k > Len(inverters) THEN 0
    ELSE (IF inverters[k].hasPrice /\ inverters[k].pricePerMWh >= priceThreshold
          THEN getPvInverterGeneration(dataPoint, inverters[k].id) ELSE 0)
         + ExpensiveSum(dataPoint, inverters, priceThreshold, k + 1)

getExpensivePvGeneration(dataPoint, cfg, priceThreshold) ==
    ExpensiveSum(dataPoint, cfg.pvInverters, priceThreshold, 1)

\* fault: the number of slots to empty the battery rounded down
getNegativePriceLookaheadHorizon_roundsDown(current, cfg, forecast) ==
    LET allowedEnergy == SocEnergy(current.soc, cfg) - SocEnergy(cfg.minSoc, cfg)
        maxDischargePower == Min2(cfg.maxDischargeRate, cfg.gridCapacityExportLimit)
    IN Min2(IF maxDischargePower > 0 THEN allowedEnergy \div maxDischargePower ELSE 0,
            Len(forecast) - 1)

getNegativePriceLookaheadHorizon(current, cfg, forecast) ==
    LET allowedEnergy == SocEnergy(current.soc, cfg) - SocEnergy(cfg.minSoc, cfg)
        maxDischargePower == Min2(cfg.maxDischargeRate, cfg.gridCapacityExportLimit)
        slotsToEmpty == IF maxDischargePower > 0
                        THEN CeilDiv(allowedEnergy, maxDischargePower) ELSE 0
    IN Min2(slotsToEmpty, Len(forecast) - 1)

\* first i in 1..lookaheadSlots with a negative consumption price, else -1
FirstNegativeSlot(forecast, lookaheadSlots) ==
    LET hits == {i \in 1..lookaheadSlots : At(forecast, i).consumptionPrice < 0}
    IN IF hits = {} THEN -1 ELSE CHOOSE i \in hits : \A j \in hits : i <= j

RECURSIVE SlotsUntilCheaper(_, _)
SlotsUntilCheaper(lookahead, price) ==
    IF lookahead = <<>> \/ Head(lookahead).consumptionPrice < price THEN <<>>
    ELSE <<Head(lookahead)>> \o SlotsUntilCheaper(Tail(lookahead), price)

\* fault: every slot of the lookahead checked, cheaper ones and what follows included
SlotsToCheck_wholeLookahead(lookahead, current) ==
    lookahead

SlotsToCheck(lookahead, current) ==
    IF Len(lookahead) > 0 /\ lookahead[1].consumptionPrice < current.consumptionPrice
    THEN <<>>
    ELSE LET slotsUntilCheaper == SlotsUntilCheaper(lookahead, current.consumptionPrice)
         IN IF Len(slotsUntilCheaper) > 0 THEN slotsUntilCheaper ELSE lookahead

\* s.consumptionPrice - current.consumptionPrice / efficiency >= minPriceDifference,
\* with the efficiency a percentage (both sides multiplied by it)
ClearsPriceDifference(s, current, cfg) ==
    s.consumptionPrice * cfg.batteryRoundTripEfficiency
        - current.consumptionPrice * 100
    >= cfg.batteryMinPriceDifference * cfg.batteryRoundTripEfficiency

MoreExpensiveSlots(lookahead, current, cfg) ==
    SelectSeq(SlotsToCheck(lookahead, current),
              LAMBDA s : ClearsPriceDifference(s, current, cfg))

\* fault: the deficits added up without the PV surplus buffer
RECURSIVE TotalDeficit_ignoresBuffer(_, _, _)
TotalDeficit_ignoresBuffer(slots, pvSurplusBuffer, availableCapacity) ==
    IF slots = <<>> THEN 0
    ELSE Max2(0, Head(slots).consumption - Head(slots).pvForecast)
         + TotalDeficit_ignoresBuffer(Tail(slots), pvSurplusBuffer, availableCapacity)

\* the loop over moreExpensiveSlots: returns totalDeficit
RECURSIVE TotalDeficit(_, _, _)
TotalDeficit(slots, pvSurplusBuffer, availableCapacity) ==
    IF slots = <<>> THEN 0
    ELSE LET net == Head(slots).consumption - Head(slots).pvForecast
         IN IF net <= 0
            THEN TotalDeficit(Tail(slots),
                              Min2(pvSurplusBuffer + (-net), availableCapacity),
                              availableCapacity)
            ELSE Max2(0, net - pvSurplusBuffer)
                 + TotalDeficit(Tail(slots), Max2(0, pvSurplusBuffer - net),
                                availableCapacity)

FutureDeficitCharge(current, cfg, totalDeficit, availableCapacity) ==
    LET energyInBattery == SocEnergy(current.soc - cfg.minSoc, cfg)
    IN Max2(0, Min2(totalDeficit - energyInBattery, availableCapacity))

PvSurplusCharge(current, cfg) ==
    LET affordablePvGeneration ==
            getAffordablePvGeneration(current, cfg, current.consumptionPrice)
        expensivePvGeneration ==
            getExpensivePvGeneration(current, cfg, current.consumptionPrice)
        pvSurplus == affordablePvGeneration - current.consumption
    IN IF pvSurplus > 0
       THEN [power |-> Min2(pvSurplus, cfg.maxChargeRate),
             reason |-> TxtN("pv surplus (affordable PV)", affordablePvGeneration)
                        \o (IF expensivePvGeneration > 0
                            THEN TxtN(", expensive PV not used", expensivePvGeneration)
                            ELSE <<>>)]
       ELSE [power |-> 0,
             reason |-> Txt("no negative prices, no future deficit")
                        \o (IF current.pvGeneration > 0 /\ affordablePvGeneration = 0
                               /\ expensivePvGeneration > 0
                            THEN TxtN(", no affordable PV available (expensive PV)",
                                      expensivePvGeneration)
                            ELSE Txt(", no pv surplus"))]

shouldChargeNow(current, cfg, forecast) ==
    IF current.soc >= cfg.maxSoc
    THEN [power |-> 0, reason |-> Txt("battery full")]
    ELSE IF current.consumptionPrice < 0
    THEN [power |-> cfg.maxChargeRate,
          reason |-> Txt("negative price: charge as much as possible")]
    ELSE
    LET lookaheadSlots == getNegativePriceLookaheadHorizon(current, cfg, forecast)
        negSlot == FirstNegativeSlot(forecast, lookaheadSlots)
        lookahead == Slice(forecast, 1, ReservationLookahead + 1)
        availableCapacity == SocEnergy(cfg.maxSoc - current.soc, cfg)
        moreExpensiveSlots == MoreExpensiveSlots(lookahead, current, cfg)
        totalDeficit == TotalDeficit(moreExpensiveSlots, 0, availableCapacity)
        futureDeficit == FutureDeficitCharge(current, cfg, totalDeficit, availableCapacity)
    IN IF negSlot > 0
       THEN [power |-> 0,
             reason |-> TxtN("do not charge: negative consumption price coming in slot +",
                             negSlot)]
       ELSE IF Len(moreExpensiveSlots) > 0 /\ totalDeficit > 0
       THEN [power |-> Min2(futureDeficit, cfg.maxChargeRate),
             reason |-> TxtN("charge for future deficit of (kWh/4)", futureDeficit)
                        \o TxtN("covering until",
                                moreExpensiveSlots[Len(moreExpensiveSlots)].time.q + 1)]
       ELSE PvSurplusCharge(current, cfg)

NegativePriceDischarge(current, cfg, negSlot) ==
    LET allowedEnergy1 == SocEnergy(current.soc, cfg) - SocEnergy(cfg.minSoc, cfg)
        maxDischargePower == Min2(cfg.maxDischargeRate, cfg.gridCapacityExportLimit)
        maxDischarge == Min2(maxDischargePower, allowedEnergy1)
    IN IF maxDischarge > 0
       THEN [power |-> maxDischarge,
             reason |-> TxtN("discharge fully before negative consumption price (slot +), injection price now positive",
                             negSlot)]
       ELSE [power |-> 0,
             reason |-> TxtN("no energy available to discharge before negative consumption price (slot +)",
                             negSlot)]

\* the loop over the 12 slots after now: futureDeficit
RECURSIVE FutureDeficit(_, _)
FutureDeficit(lookahead, current) ==
    IF lookahead = <<>> THEN 0
    ELSE (IF Head(lookahead).consumptionPrice > current.consumptionPrice
          THEN Max2(0, Head(lookahead).consumption - Head(lookahead).pvForecast)
          ELSE 0)
         + FutureDeficit(Tail(lookahead), current)

\* the loop over the 12 slots after now: expectedCharge
RECURSIVE ExpectedCharge(_, _)
ExpectedCharge(lookahead, cfg) ==
    IF lookahead = <<>> THEN 0
    ELSE (IF Head(lookahead).pvForecast > Head(lookahead).consumption
          THEN Min2(Head(lookahead).pvForecast - Head(lookahead).consumption,
                    cfg.maxChargeRate)
          ELSE 0)
         + ExpectedCharge(Tail(lookahead), cfg)

FutureNeed(current, cfg, forecast) ==
    LET lookahead == Slice(forecast, 1, DischargeLookahead + 1)
        availableCapacity == SocEnergy(cfg.maxSoc - current.soc, cfg)
    IN Max2(0, FutureDeficit(lookahead, current)
               - Min2(ExpectedCharge(lookahead, cfg), availableCapacity))

\* fault: the discharge power without the allowed energy term
CoverDeficitDischarge_ignoresEnergy(current, cfg, forecast) ==
    LET deficit == Max2(0, current.consumption - current.pvGeneration)
    IN [power |-> Min2(deficit, cfg.maxDischargeRate),
        reason |-> TxtN("cover consumption (deficit)", deficit)]

CoverDeficitDischarge(current, cfg, forecast) ==
    LET deficit == Max2(0, current.consumption - current.pvGeneration)
        futureNeed == FutureNeed(current, cfg, forecast)
        allowedEnergy2 == SocEnergy(current.soc, cfg) - SocEnergy(cfg.minSoc, cfg)
                          - futureNeed
        maxPower == Min3(deficit, cfg.maxDischargeRate, allowedEnergy2)
    IN IF deficit <= 0
       THEN [power |-> 0, reason |-> Txt("no deficit to cover")]
       ELSE IF maxPower <= 0
       THEN [power |-> 0, reason |-> Txt("reserve for future expensive consumption")]
       ELSE [power |-> maxPower,
             reason |-> TxtN("cover consumption (deficit)", deficit)
                        \o TxtN("allowed", allowedEnergy2)
                        \o TxtN("futureNeed", futureNeed)]

\* fault: the discharge evaluation without its negative price check
shouldDischargeNow_ignoresPrice(current, cfg, forecast) ==
    IF current.soc <= cfg.minSoc
    THEN [power |-> 0, reason |-> Txt("battery empty")]
    ELSE
    LET lookaheadSlots == getNegativePriceLookaheadHorizon(current, cfg, forecast)
        negSlot == FirstNegativeSlot(forecast, lookaheadSlots)
    IN IF negSlot > 0 /\ current.injectionPrice > 0
       THEN NegativePriceDischarge(current, cfg, negSlot)
       ELSE CoverDeficitDischarge(current, cfg, forecast)

shouldDischargeNow(current, cfg, forecast) ==
    IF current.soc <= cfg.minSoc
    THEN [power |-> 0, reason |-> Txt("battery empty")]
    ELSE IF current.consumptionPrice < 0
    THEN [power |-> 0, reason |-> Txt("discharging not allowed at negative price")]
    ELSE
    LET lookaheadSlots == getNegativePriceLookaheadHorizon(current, cfg, forecast)
        negSlot == FirstNegativeSlot(forecast, lookaheadSlots)
    IN IF negSlot > 0 /\ current.injectionPrice > 0
       THEN NegativePriceDischarge(current, cfg, negSlot)
       ELSE CoverDeficitDischarge(current, cfg, forecast)

\* ---- determineLoadState
IsBeforeDeadline(time, deadlineHour) ==
    time.hour < deadlineHour \/ (time.hour = deadlineHour /\ time.minute = 0)

\* indices of the candidate slots, cheapest first (Array.prototype.sort is stable)
RECURSIVE SortByPrice(_, _)
SortByPrice(indices, price) ==
    IF indices = {} THEN <<>>
    ELSE LET first == CHOOSE i \in indices : \A j \in indices :
                          price[i] < price[j] \/ (price[i] = price[j] /\ i <= j)
         IN <<first>> \o SortByPrice(indices \ {first}, price)

RECURSIVE SetToSeq(_)
SetToSeq(indices) ==
    IF indices = {} THEN <<>>
    ELSE LET first == CHOOSE i \in indices : \A j \in indices : i <= j
         IN <<first>> \o SetToSeq(indices \ {first})

InSeq(x, s) == \E k \in 1..Len(s) : s[k] = x

\* fault: the fill loop without its stop once enough slots are selected
FillCheapest_neverStops(selectedSlots, candidateSlots, minSlotsNeeded) ==
    selectedSlots \o candidateSlots

\* the fill loop: push cheapest slots not yet selected until enough are selected
RECURSIVE FillCheapest(_, _, _)
FillCheapest(selectedSlots, candidateSlots, minSlotsNeeded) ==
    IF candidateSlots = <<>> \/ Len(selectedSlots) >= minSlotsNeeded
    THEN selectedSlots
    ELSE FillCheapest(IF InSeq(Head(candidateSlots), selectedSlots)
                      THEN selectedSlots
                      ELSE Append(selectedSlots, Head(candidateSlots)),
                      Tail(candidateSlots), minSlotsNeeded)

HasPvOversupply(point, cfg) ==
    getAffordablePvGeneration(point, cfg, point.consumptionPrice) - point.consumption
    >= cfg.loadActivationPower

\* fault: the cheapest slots selected without regard to PV surplus
SelectSlots_cheapestOnly(futureSlots, points, cfg, minSlotsNeeded) ==
    FillCheapest(<<>>,
                 SortByPrice(futureSlots,
                             [i \in futureSlots |-> points[i].consumptionPrice]),
                 minSlotsNeeded)

\* futureSlots: 0-based indices, and the points, of today's slots from now
\* up to the deadline; points is a function from those indices
SelectSlots(futureSlots, points, cfg, minSlotsNeeded) ==
    LET pvOversupplySlots ==
            SetToSeq({i \in futureSlots : HasPvOversupply(points[i], cfg)})
        candidateSlots ==
            SortByPrice(futureSlots, [i \in futureSlots |-> points[i].consumptionPrice])
    IN IF Len(pvOversupplySlots) >= minSlotsNeeded
       THEN Slice(pvOversupplySlots, 0, minSlotsNeeded)
       ELSE FillCheapest(pvOversupplySlots, candidateSlots, minSlotsNeeded)

\* fault: a load that is not selected keeps the state of the previous slot
LoadRule_keepsPreviousState(currentSlot, current, cfg, prevLoad, activationRuntime, minSlotsNeeded, futureSlots, points) ==
    LET selectedSlots == SelectSlots(futureSlots, points, cfg, minSlotsNeeded)
    IN IF current.consumptionPrice < 0
       THEN [state |-> TRUE, reason |-> Txt("negative consumption price")]
       ELSE IF prevLoad /\ activationRuntime < cfg.loadMinRuntimeActivation
       THEN [state |-> TRUE, reason |-> Txt("minimum activation runtime")]
       ELSE IF InSeq(currentSlot, selectedSlots) /\ minSlotsNeeded > 0
       THEN [state |-> TRUE,
             reason |-> IF currentSlot \in futureSlots
                           /\ HasPvOversupply(points[currentSlot], cfg)
                        THEN Txt("pv oversupply (selected for min daily runtime)")
                        ELSE Txt("selected for min daily runtime (cheapest slot)")]
       ELSE [state |-> prevLoad, reason |-> Txt("not selected for min daily runtime")]

LoadRule(currentSlot, current, cfg, prevLoad, activationRuntime, minSlotsNeeded, futureSlots, points) ==
    LET selectedSlots == SelectSlots(futureSlots, points, cfg, minSlotsNeeded)
        needMinActivation == prevLoad /\ activationRuntime < cfg.loadMinRuntimeActivation
    IN IF current.consumptionPrice < 0
       THEN [state |-> TRUE, reason |-> Txt("negative consumption price")]
       ELSE IF needMinActivation
       THEN [state |-> TRUE, reason |-> Txt("minimum activation runtime")]
       ELSE IF InSeq(currentSlot, selectedSlots) /\ minSlotsNeeded > 0
       THEN [state |-> TRUE,
             reason |-> IF currentSlot \in futureSlots
                           /\ HasPvOversupply(points[currentSlot], cfg)
                        THEN Txt("pv oversupply (selected for min daily runtime)")
                        ELSE Txt("selected for min daily runtime (cheapest slot)")]
       ELSE [state |-> FALSE, reason |-> Txt("not selected for min daily runtime")]

RECURSIVE ActivationRuntime(_, _)
ActivationRuntime(series, i) ==
    IF i >= 0 /\ At(series, i).loadState THEN 1 + ActivationRuntime(series, i - 1)
    ELSE 0

determineLoadState(currentSlot, series, cfg, current) ==
    LET prevLoad == IF currentSlot > 0 THEN At(series, currentSlot - 1).loadState
                    ELSE FALSE
        activationRuntime == IF prevLoad THEN ActivationRuntime(series, currentSlot - 1)
                             ELSE 0
        runtimeTillNow == Cardinality({i \in 0..(currentSlot - 1) : At(series, i).loadState})
        slotsToday == {i \in 0..(Len(series) - 1) :
                          /\ At(series, i).time.day = current.time.day
                          /\ IsBeforeDeadline(At(series, i).time, cfg.loadRuntimeDeadlineHour)}
        futureSlots == {i \in slotsToday : i >= currentSlot}
        minSlotsNeeded == Max2(0, cfg.loadMinRuntimeDaily - runtimeTillNow)
    IN LoadRule(currentSlot, current, cfg, prevLoad, activationRuntime, minSlotsNeeded,
                futureSlots, [i \in futureSlots |-> At(series, i)])

\* fault: the excess PV without its floor at 0
calculatePvCurtailment_withoutFloor(current, dec, cfg) ==
    IF current.consumptionPrice < 0
    THEN [curtailment |-> current.pvGeneration, reason |-> Txt("negative consumption price")]
    ELSE IF current.injectionPrice < 0
    THEN [curtailment |-> current.pvGeneration
                          - (current.consumption + dec.batteryPower
                             + (IF dec.loadState THEN cfg.loadNominalPower ELSE 0)),
          reason |-> Txt("negative injection price")]
    ELSE [curtailment |-> 0, reason |-> Txt("no curtailment needed")]

calculatePvCurtailment(current, dec, cfg) ==
    IF current.consumptionPrice < 0
    THEN [curtailment |-> current.pvGeneration, reason |-> Txt("negative consumption price")]
    ELSE IF current.injectionPrice < 0
    THEN LET effectiveConsumption ==
                 current.consumption + dec.batteryPower
                 + (IF dec.loadState THEN cfg.loadNominalPower ELSE 0)
         IN [curtailment |-> Max2(0, current.pvGeneration - effectiveConsumption),
             reason |-> Txt("negative injection price")]
    ELSE [curtailment |-> 0, reason |-> Txt("no curtailment needed")]

\* consumption + load power + battery power - PV generation + curtailment
PowerFlow(current, loadPower, batteryPower, curtailment) ==
    current.consumption + loadPower + batteryPower - current.pvGeneration + curtailment

\* fault: the whole charge power taken away, whatever the excess
LimitImport_dropsAllCharge(current, dec, cfg, totalPowerFlow) ==
    IF dec.batteryPower > 0 THEN [dec EXCEPT !.batteryPower = 0] ELSE dec

\* fault: the import branch stopping after its first step
LimitImport_onlyReducesCharge(current, dec, cfg, totalPowerFlow) ==
    IF dec.batteryPower > 0
    THEN [dec EXCEPT !.batteryPower =
                         @ - Min2(totalPowerFlow - cfg.gridCapacityImportLimit, @)]
    ELSE dec

LimitImport(current, dec, cfg, totalPowerFlow) ==
    LET loadPower == IF dec.loadState THEN cfg.loadNominalPower ELSE 0
        excessImport == totalPowerFlow - cfg.gridCapacityImportLimit
        batteryReduction == Min2(excessImport, dec.batteryPower)
        d1 == IF dec.batteryPower > 0
              THEN [dec EXCEPT !.batteryPower = @ - batteryReduction,
                               !.batteryDecisionReason =
                                   @ \o TxtN("<br />Reduced charging by (kW) due to import limit",
                                             batteryReduction)]
              ELSE dec
        totalPowerFlow2 == PowerFlow(current, loadPower, d1.batteryPower, d1.curtailment)
        d2 == IF dec.loadState /\ totalPowerFlow2 > cfg.gridCapacityImportLimit
              THEN [d1 EXCEPT !.loadState = FALSE,
                              !.loadDecisionReason =
                                  @ \o Txt("<br />Turned off load due to import limit")]
              ELSE d1
        \* the flow is recomputed with the load power of the incoming decision
        totalPowerFlow3 == PowerFlow(current, loadPower, d2.batteryPower, d2.curtailment)
        remainingExcess == totalPowerFlow3 - cfg.gridCapacityImportLimit
        curtailmentDecrease == Min2(remainingExcess, d2.curtailment)
    IN IF remainingExcess > 0 /\ d2.curtailment > 0
       THEN [d2 EXCEPT !.curtailment = @ - curtailmentDecrease,
                       !.curtailmentDecisionReason =
                           @ \o TxtN("<br />Decreased curtailment by (kW) due to import limit",
                                     curtailmentDecrease)]
       ELSE d2

\* fault: the load is left as it is and the PV is curtailed instead
LimitExport_skipsLoad(current, dec, cfg, totalPowerFlow) ==
    LET excessExport == Abs(totalPowerFlow) - cfg.gridCapacityExportLimit
        batteryIncrease == Min2(excessExport, cfg.maxChargeRate - dec.batteryPower)
        d1 == IF dec.batteryPower < cfg.maxChargeRate
              THEN [dec EXCEPT !.batteryPower = @ + batteryIncrease] ELSE dec
        loadPower3 == IF d1.loadState THEN cfg.loadNominalPower ELSE 0
        totalPowerFlow3 == PowerFlow(current, loadPower3, d1.batteryPower, d1.curtailment)
        remainingExcess == Abs(Min2(0, totalPowerFlow3)) - cfg.gridCapacityExportLimit
        curtailmentIncrease ==
            Min2(remainingExcess, Max2(0, current.pvGeneration - d1.curtailment))
    IN IF remainingExcess > 0
       THEN [d1 EXCEPT !.curtailment = @ + curtailmentIncrease] ELSE d1

LimitExport(current, dec, cfg, totalPowerFlow) ==
    LET excessExport == Abs(totalPowerFlow) - cfg.gridCapacityExportLimit
        batteryIncrease == Min2(excessExport, cfg.maxChargeRate - dec.batteryPower)
        d1 == IF dec.batteryPower < cfg.maxChargeRate
              THEN [dec EXCEPT !.batteryPower = @ + batteryIncrease,
                               !.batteryDecisionReason =
                                   @ \o TxtN("<br />Increased charging by (kW) due to export limit",
                                             batteryIncrease)]
              ELSE dec
        loadPower2 == IF d1.loadState THEN cfg.loadNominalPower ELSE 0
        totalPowerFlow2 == PowerFlow(current, loadPower2, d1.batteryPower, d1.curtailment)
        exportPower2 == Abs(Min2(0, totalPowerFlow2))
        d2 == IF ~d1.loadState /\ exportPower2 > cfg.gridCapacityExportLimit
              THEN [d1 EXCEPT !.loadState = TRUE,
                              !.loadDecisionReason =
                                  @ \o Txt("<br />Turned on load due to export limit")]
              ELSE d1
        loadPower3 == IF d2.loadState THEN cfg.loadNominalPower ELSE 0
        totalPowerFlow3 == PowerFlow(current, loadPower3, d2.batteryPower, d2.curtailment)
        exportPower3 == Abs(Min2(0, totalPowerFlow3))
        remainingExcess == exportPower3 - cfg.gridCapacityExportLimit
        maxAdditionalCurtailment == Max2(0, current.pvGeneration - d2.curtailment)
        curtailmentIncrease == Min2(remainingExcess, maxAdditionalCurtailment)
    IN IF remainingExcess > 0
       THEN [d2 EXCEPT !.curtailment = @ + curtailmentIncrease,
                       !.curtailmentDecisionReason =
                           @ \o TxtN("<br />Increased curtailment by (kW) due to export limit",
                                     curtailmentIncrease)]
       ELSE d2

\* fault: a flow exactly at a limit treated as a breach of it
applyGridCapacityLimits_limitsAtTheLimit(current, dec, cfg) ==
    LET loadPower == IF dec.loadState THEN cfg.loadNominalPower ELSE 0
        totalPowerFlow == PowerFlow(current, loadPower, dec.batteryPower, dec.curtailment)
    IN IF totalPowerFlow > 0
       THEN IF totalPowerFlow >= cfg.gridCapacityImportLimit
            THEN LimitImport(current, dec, cfg, totalPowerFlow) ELSE dec
       ELSE IF totalPowerFlow < 0
       THEN IF Abs(totalPowerFlow) >= cfg.gridCapacityExportLimit
            THEN LimitExport(current, dec, cfg, totalPowerFlow) ELSE dec
       ELSE dec

\* fault: the reason of a switched load replaced by the note of the switch
applyGridCapacityLimits_replacesLoadReason(current, dec, cfg) ==
    LET loadPower == IF dec.loadState THEN cfg.loadNominalPower ELSE 0
        totalPowerFlow == PowerFlow(current, loadPower, dec.batteryPower, dec.curtailment)
        adjustedDecision ==
            IF totalPowerFlow > cfg.gridCapacityImportLimit /\ totalPowerFlow > 0
            THEN LimitImport(current, dec, cfg, totalPowerFlow)
            ELSE IF totalPowerFlow < 0 /\ Abs(totalPowerFlow) > cfg.gridCapacityExportLimit
            THEN LimitExport(current, dec, cfg, totalPowerFlow)
            ELSE dec
    IN IF adjustedDecision.loadState # dec.loadState
       THEN [adjustedDecision EXCEPT
                !.loadDecisionReason =
                    SubSeq(@, Len(dec.loadDecisionReason) + 1, Len(@))]
       ELSE adjustedDecision

applyGridCapacityLimits(current, dec, cfg) ==
    LET loadPower == IF dec.loadState THEN cfg.loadNominalPower ELSE 0
        totalPowerFlow == PowerFlow(current, loadPower, dec.batteryPower, dec.curtailment)
    IN IF totalPowerFlow > 0
       THEN IF totalPowerFlow > cfg.gridCapacityImportLimit
            THEN LimitImport(current, dec, cfg, totalPowerFlow) ELSE dec
       ELSE IF totalPowerFlow < 0
       THEN IF Abs(totalPowerFlow) > cfg.gridCapacityExportLimit
            THEN LimitExport(current, dec, cfg, totalPowerFlow) ELSE dec
       ELSE dec

\* fault: the window taken from the slot after the current one
Forecast_skipsCurrentSlot(currentSlot, series) ==
    Slice(series, currentSlot + 1,
          currentSlot + 1 + Min2(ForecastHorizon, Len(series) - currentSlot))

\* the forecast window: data.slice(currentSlot, currentSlot + horizon)
Forecast(currentSlot, series) ==
    LET horizon == Min2(ForecastHorizon, Len(series) - currentSlot)
    IN Slice(series, currentSlot, currentSlot + horizon)

\* the battery part of a control cycle, from the two evaluations
BatteryDecision(chargeDecision, dischargeDecision) ==
    IF chargeDecision.power > 0
    THEN [batteryPower |-> chargeDecision.power,
          batteryDecisionReason |-> chargeDecision.reason]
    ELSE [batteryPower |-> IF dischargeDecision.power > 0
                           THEN -dischargeDecision.power ELSE 0,
          batteryDecisionReason |-> Txt("Charge decision: ") \o chargeDecision.reason
                                    \o Txt("<br />Discharge decision: ")
                                    \o dischargeDecision.reason]

\* controlCycle up to, and excluding, the grid capacity limits
BaseDecision(currentSlot, series, cfg) ==
    LET current == At(series, currentSlot)
        forecast == Forecast(currentSlot, series)
        chargeDecision == shouldChargeNow(current, cfg, forecast)
        battery == BatteryDecision(chargeDecision,
                                   IF chargeDecision.power > 0
                                   THEN [power |-> 0, reason |-> <<>>]
                                   ELSE shouldDischargeNow(current, cfg, forecast))
        loadDecision == determineLoadState(currentSlot, series, cfg, current)
        d1 == [batteryPower |-> battery.batteryPower,
               curtailment |-> 0,
               loadState |-> loadDecision.state,
               loadDecisionReason |-> loadDecision.reason,
               batteryDecisionReason |-> battery.batteryDecisionReason,
               curtailmentDecisionReason |-> <<>>]
        curtailmentResult == calculatePvCurtailment(current, d1, cfg)
    IN [d1 EXCEPT !.curtailment = curtailmentResult.curtailment,
                  !.curtailmentDecisionReason = curtailmentResult.reason]

controlCycle(currentSlot, series, cfg) ==
    applyGridCapacityLimits(At(series, currentSlot),
                            BaseDecision(currentSlot, series, cfg), cfg)

\* ------------------------------------------------------------ storage.ts
\* The store is the record list kept under LOAD_STATE_STORAGE_KEY, sorted by
\* slot index; a record's timestamp (Date.now()) is never read and is left out.
RECURSIVE InsertSorted(_, _)
InsertSorted(states, record) ==
    IF states = <<>> THEN <<record>>
    ELSE IF record.slotIndex < Head(states).slotIndex THEN <<record>> \o states
    ELSE <<Head(states)>> \o InsertSorted(Tail(states), record)

\* states.find(state => state.slotIndex === i): position of the first hit, or 0
FindIndex(states, i) ==
    LET hits == {k \in 1..Len(states) : states[k].slotIndex = i}
    IN IF hits = {} THEN 0 ELSE CHOOSE k \in hits : \A j \in hits : k <= j

\* fault: a record pushed without the lookup for an existing one
storeLoadState_appends(states, slotIndex, loadState) ==
    Append(states, [slotIndex |-> slotIndex, loadState |-> loadState])

\* fault: a record that exists for the slot is kept as it is
storeLoadState_keepsExisting(states, slotIndex, loadState) ==
    IF FindIndex(states, slotIndex) > 0 THEN states
    ELSE InsertSorted(states, [slotIndex |-> slotIndex, loadState |-> loadState])

storeLoadState(states, slotIndex, loadState) ==
    LET existingIndex == FindIndex(states, slotIndex)
        record == [slotIndex |-> slotIndex, loadState |-> loadState]
    IN IF existingIndex > 0
       THEN [states EXCEPT ![existingIndex] = record]
       ELSE InsertSorted(states, record)

\* record ? record.loadState : false
RecordedOn(states, i) ==
    FindIndex(states, i) > 0 /\ states[FindIndex(states, i)].loadState

\* fault: the lookup reading the record of the current slot
getPreviousLoadState_readsCurrentSlot(states, currentSlot) ==
    RecordedOn(states, currentSlot)

getPreviousLoadState(states, currentSlot) ==
    IF currentSlot <= 0 THEN FALSE ELSE RecordedOn(states, currentSlot - 1)

RECURSIVE CountBack(_, _)
CountBack(states, i) ==
    IF i >= 0 /\ RecordedOn(states, i) THEN 1 + CountBack(states, i - 1) ELSE 0

getActivationRuntime(states, currentSlot) == CountBack(states, currentSlot - 1)

getTodayRuntime(states, currentSlot, currentTime) ==
    Cardinality({i \in 0..(currentSlot - 1) : RecordedOn(states, i)})

\* --------------------------------- strategies/cost-optimization-strategy.ts
PriceGroupTolerance == 1
SamePriceTolerance == 5

\* fault: the requested power passed on without the charge rate cap
MaxChargePower_unclamped(requestedPower, cfg) == requestedPower

\* Math.min(requestedPower, config.maxChargeRate)
MaxChargePower(requestedPower, cfg) == Min2(requestedPower, cfg.maxChargeRate)

\* the "Blok 0" switch of the charge evaluation; handled = FALSE: fall through
TradingCharge(current, cfg) ==
    LET requestedPower == current.tradingSignalRequestedPower
    IN IF ~cfg.tradingSignalEnabled
       THEN [handled |-> FALSE, power |-> 0, reason |-> <<>>]
       ELSE IF current.tradingSignal = "standby"
       THEN [handled |-> TRUE, power |-> 0,
             reason |-> Txt("trading signal: standby - battery idle")]
       ELSE IF current.tradingSignal = "overrule"
       THEN IF requestedPower > 0
            THEN IF current.soc >= cfg.maxSoc
                 THEN [handled |-> TRUE, power |-> 0,
                       reason |-> Txt("trading signal: overrule - cannot charge, battery full")]
                 ELSE [handled |-> TRUE,
                       power |-> MaxChargePower(requestedPower, cfg),
                       reason |-> TxtN("trading signal: overrule - charging (kW)",
                                       MaxChargePower(requestedPower, cfg))
                                  \o TxtN("requested", requestedPower)]
            ELSE IF requestedPower < 0
            THEN [handled |-> TRUE, power |-> 0,
                  reason |-> Txt("trading signal: overrule - discharging requested (handled in discharge logic)")]
            ELSE [handled |-> TRUE, power |-> 0,
                  reason |-> Txt("trading signal: overrule - no power requested")]
       ELSE [handled |-> FALSE, power |-> 0, reason |-> <<>>]

\* fault: the discharge evaluation without its trading switch
TradingDischarge_fallsThrough(current, cfg) ==
    [handled |-> FALSE, power |-> 0, reason |-> <<>>]

\* the "Blok 0" switch of the discharge evaluation
TradingDischarge(current, cfg) ==
    LET requestedPower == current.tradingSignalRequestedPower
        dischargePower == Abs(requestedPower)
    IN IF ~cfg.tradingSignalEnabled
       THEN [handled |-> FALSE, power |-> 0, reason |-> <<>>]
       ELSE IF current.tradingSignal = "standby"
       THEN [handled |-> TRUE, power |-> 0,
             reason |-> Txt("trading signal: standby - battery idle")]
       ELSE IF current.tradingSignal = "overrule"
       THEN IF requestedPower < 0
            THEN IF current.soc <= cfg.minSoc
                 THEN [handled |-> TRUE, power |-> 0,
                       reason |-> Txt("trading signal: overrule - cannot discharge, battery empty")]
                 ELSE [handled |-> TRUE,
                       power |-> Min2(dischargePower, cfg.maxDischargeRate),
                       reason |-> TxtN("trading signal: overrule - discharging (kW)",
                                       Min2(dischargePower, cfg.maxDischargeRate))
                                  \o TxtN("requested", dischargePower)]
            ELSE IF requestedPower > 0
            THEN [handled |-> TRUE, power |-> 0,
                  reason |-> Txt("trading signal: overrule - charging requested (handled in charge logic)")]
            ELSE [handled |-> TRUE, power |-> 0,
                  reason |-> Txt("trading signal: overrule - no power requested")]
       ELSE [handled |-> FALSE, power |-> 0, reason |-> <<>>]

\* fault: the load's nominal power added twice
getEffectiveConsumption_countsLoadTwice(point, cfg) ==
    point.consumption + 2 * cfg.loadNominalPower

getEffectiveConsumption(point, cfg) ==
    point.consumption + (IF cfg.loadNominalPower > 0 THEN cfg.loadNominalPower ELSE 0)

\* fault: the grid capacity of a slot taken without the load's nominal power
AvailableGridCapacity_ignoresLoad(point, cfg) ==
    Max2(0, cfg.gridCapacityImportLimit - point.consumption)

\* Math.max(0, gridCapacityImportLimit - netConsumption) of a negative-price slot
AvailableGridCapacity(point, cfg) ==
    Max2(0, cfg.gridCapacityImportLimit - getEffectiveConsumption(point, cfg))

\* forecast indices of the contiguous run of negative-price slots from now
NegativePriceSlots(current, forecast) ==
    LET maxLookahead == Min2(ReservationLookahead, Len(forecast) - 1)
    IN (IF current.consumptionPrice < 0 THEN {0} ELSE {})
       \cup {i \in 1..maxLookahead :
                \A j \in 1..i : At(forecast, j).consumptionPrice < 0}

RECURSIVE PriceGroupsFrom(_, _, _, _)
PriceGroupsFrom(sorted, price, currentGroup, currentPrice) ==
    LET closed == IF currentGroup # <<>> THEN <<currentGroup>> ELSE <<>>
    IN IF sorted = <<>> THEN closed
       ELSE IF Abs(price[Head(sorted)] - currentPrice) < PriceGroupTolerance
       THEN PriceGroupsFrom(Tail(sorted), price, Append(currentGroup, Head(sorted)),
                            currentPrice)
       ELSE closed \o PriceGroupsFrom(Tail(sorted), price, <<Head(sorted)>>,
                                      price[Head(sorted)])

\* the inner loop: the slots of one price group, from the k-th on
RECURSIVE DistributeGroup(_, _, _, _, _, _, _)
DistributeGroup(group, k, forecast, cfg, groupGridCapacity, groupEnergy, st) ==
    IF k > Len(group) \/ RLe(groupEnergy, RInt(0)) THEN st
    ELSE LET availableGridCapacity == AvailableGridCapacity(At(forecast, group[k]), cfg)
             proportionalEnergy ==
                 RMul(Rat(availableGridCapacity, groupGridCapacity), groupEnergy)
             slotPower == RMin(proportionalEnergy, RInt(availableGridCapacity))
             limitedSlotPower == RMin(slotPower, RInt(cfg.maxChargeRate))
         IN DistributeGroup(group, k + 1, forecast, cfg, groupGridCapacity, groupEnergy,
                [remainingEnergy |-> RSub(st.remainingEnergy, limitedSlotPower),
                 currentSlotPower |-> IF group[k] = 0 THEN limitedSlotPower
                                      ELSE st.currentSlotPower,
                 usedSlots |-> Append(st.usedSlots, group[k])])

RECURSIVE GroupGridCapacity(_, _, _)
GroupGridCapacity(group, forecast, cfg) ==
    IF group = <<>> THEN 0
    ELSE AvailableGridCapacity(At(forecast, Head(group)), cfg)
         + GroupGridCapacity(Tail(group), forecast, cfg)

\* the outer loop: the price groups, cheapest first, from the g-th on
RECURSIVE DistributeGroups(_, _, _, _, _)
DistributeGroups(priceGroups, g, forecast, cfg, st) ==
    IF g > Len(priceGroups) \/ RLe(st.remainingEnergy, RInt(0)) THEN st
    ELSE LET groupGridCapacity == GroupGridCapacity(priceGroups[g], forecast, cfg)
             groupEnergy == RMin(st.remainingEnergy, RInt(groupGridCapacity))
         IN DistributeGroups(priceGroups, g + 1, forecast, cfg,
                DistributeGroup(priceGroups[g], 1, forecast, cfg, groupGridCapacity,
                                groupEnergy, st))

NegativePricePlan(current, cfg, forecast) ==
    LET indices == NegativePriceSlots(current, forecast)
        price == [i \in indices |-> At(forecast, i).consumptionPrice]
        sorted == SortByPrice(indices, price)
        priceGroups == PriceGroupsFrom(sorted, price, <<>>, price[Head(sorted)])
        availableCapacity == SocEnergy(cfg.maxSoc - current.soc, cfg)
    IN [priceGroups |-> priceGroups, price |-> price,
        st |-> DistributeGroups(priceGroups, 1, forecast, cfg,
                   [remainingEnergy |-> RInt(availableCapacity),
                    currentSlotPower |-> RInt(0), usedSlots |-> <<>>])]

optimizeNegativePriceCharging(current, cfg, forecast) ==
    LET plan == NegativePricePlan(current, cfg, forecast)
        cheapestPrice == plan.price[plan.priceGroups[1][1]]
    IN IF RLe(plan.st.currentSlotPower, RInt(0))
       THEN [power |-> RInt(0),
             reason |-> TxtN("negative price: defer charging to (slots)",
                             Len(plan.priceGroups[1]))
                        \o TxtN("with price (optimizing compensation)", cheapestPrice)]
       ELSE [power |-> plan.st.currentSlotPower,
             reason |-> TxtN("negative price: optimized charging over (slots)",
                             Len(plan.st.usedSlots))
                        \o TxtN("cheapest", cheapestPrice)]

\* forecast indices after now whose price is within the tolerance of the
\* current price, up to the first slot with another price
SamePriceSlots(current, forecast) ==
    LET maxLookahead == Min2(ReservationLookahead, Len(forecast) - 1)
    IN {i \in 1..maxLookahead :
           \A j \in 1..i :
               Abs(At(forecast, j).consumptionPrice - current.consumptionPrice)
               < SamePriceTolerance}

calculateSpreadChargePower(totalEnergyNeeded, current, forecast, cfg) ==
    LET samePriceSlots == SamePriceSlots(current, forecast)
        currentAvailableCapacity ==
            Max2(0, cfg.gridCapacityImportLimit
                    - (current.consumption - current.pvGeneration))
        capacity == [i \in samePriceSlots |->
                        Max2(0, cfg.gridCapacityImportLimit
                                - (At(forecast, i).consumption - At(forecast, i).pvForecast))]
        totalAvailableCapacity ==
            currentAvailableCapacity + SumSeq([k \in 1..Cardinality(samePriceSlots) |->
                                                  capacity[k]])
        \* the loop visits the current slot first and only its power is returned
        proportionalEnergy ==
            RMul(Rat(currentAvailableCapacity, totalAvailableCapacity),
                 RInt(totalEnergyNeeded))
        slotPower == RMin(proportionalEnergy,
                          RMin(RInt(totalEnergyNeeded), RInt(currentAvailableCapacity)))
    IN IF samePriceSlots = {} \/ totalAvailableCapacity <= 0
       THEN RInt(Min2(totalEnergyNeeded, cfg.maxChargeRate))
       ELSE IF totalEnergyNeeded <= 0 THEN RInt(0)
       ELSE RMin(slotPower, RMin(RInt(currentAvailableCapacity), RInt(cfg.maxChargeRate)))

ToRational(d) == [power |-> RInt(d.power), reason |-> d.reason]

\* fault: the requested power of an overrule taken with the switch off
costOptimization_shouldDischargeNow_ignoresSwitch(current, cfg, forecast) ==
    LET trading == TradingDischarge(current, [cfg EXCEPT !.tradingSignalEnabled = TRUE])
    IN [power |-> trading.power, reason |-> trading.reason]

costOptimization_shouldChargeNow(current, cfg, forecast) ==
    LET trading == TradingCharge(current, cfg)
        lookaheadSlots == getNegativePriceLookaheadHorizon(current, cfg, forecast)
        negSlot == FirstNegativeSlot(forecast, lookaheadSlots)
        lookahead == Slice(forecast, 1, ReservationLookahead + 1)
        availableCapacity == SocEnergy(cfg.maxSoc - current.soc, cfg)
        moreExpensiveSlots == MoreExpensiveSlots(lookahead, current, cfg)
        totalDeficit == TotalDeficit(moreExpensiveSlots, 0, availableCapacity)
        extraNeededForFutureDeficit ==
            FutureDeficitCharge(current, cfg, totalDeficit, availableCapacity)
    IN IF trading.handled
       THEN [power |-> RInt(trading.power), reason |-> trading.reason]
       ELSE IF current.soc >= cfg.maxSoc
       THEN [power |-> RInt(0), reason |-> Txt("battery full")]
       ELSE IF current.consumptionPrice < 0
       THEN optimizeNegativePriceCharging(current, cfg, forecast)
       ELSE IF negSlot > 0
       THEN [power |-> RInt(0),
             reason |-> TxtN("do not charge: negative consumption price coming in slot +",
                             negSlot)]
       ELSE IF Len(moreExpensiveSlots) > 0 /\ totalDeficit > 0
       THEN [power |-> calculateSpreadChargePower(extraNeededForFutureDeficit, current,
                                                  forecast, cfg),
             reason |-> TxtN("charge for future deficit of (kWh/4)",
                             extraNeededForFutureDeficit)
                        \o TxtN("covering until",
                                moreExpensiveSlots[Len(moreExpensiveSlots)].time.q + 1)]
       ELSE ToRational(PvSurplusCharge(current, cfg))

costOptimization_shouldDischargeNow(current, cfg, forecast) ==
    LET trading == TradingDischarge(current, cfg)
    IN IF trading.handled
       THEN [power |-> trading.power, reason |-> trading.reason]
       ELSE shouldDischargeNow(current, cfg, forecast)

\* the store-backed determineLoadState of the cost optimization strategy
costOptimization_determineLoadState(states, currentSlot, cfg, current, forecast) ==
    LET prevLoad == getPreviousLoadState(states, currentSlot)
        activationRuntime == getActivationRuntime(states, currentSlot)
        runtimeTillNow == getTodayRuntime(states, currentSlot, current.time)
        futureSlots ==
            (IF IsBeforeDeadline(current.time, cfg.loadRuntimeDeadlineHour)
             THEN {currentSlot} ELSE {})
            \cup {currentSlot + i : i \in
                    {i \in 1..(Len(forecast) - 1) :
                        /\ At(forecast, i).time.day = current.time.day
                        /\ IsBeforeDeadline(At(forecast, i).time,
                                            cfg.loadRuntimeDeadlineHour)}}
        points == [i \in futureSlots |->
                      IF i = currentSlot THEN current ELSE At(forecast, i - currentSlot)]
        minSlotsNeeded == Max2(0, cfg.loadMinRuntimeDaily - runtimeTillNow)
    IN LoadRule(currentSlot, current, cfg, prevLoad, activationRuntime, minSlotsNeeded,
                futureSlots, points)

RECURSIVE CapacitySum(_, _, _)
CapacitySum(inverters, controllable, k) ==
    IF k > Len(inverters) THEN 0
    ELSE (IF inverters[k].controllable = controllable THEN inverters[k].capacity ELSE 0)
         + CapacitySum(inverters, controllable, k + 1)

RECURSIVE GenerationSum(_, _)
GenerationSum(generations, k) ==
    IF k > Len(generations) THEN 0
    ELSE generations[k].generation + GenerationSum(generations, k + 1)

\* fault: the whole excess added to the setpoint
ControllableNeeded_uncapped(excess, controllableCapacity) == excess

\* min(excess, controllableCapacity): the controllable share of the setpoint
ControllableNeeded(excess, controllableCapacity) ==
    RMin(excess, RInt(controllableCapacity))

\* the setpoint and the rule that produced it; dec.batteryPower is a rational
PvSetpoint(current, dec, cfg) ==
    LET nonControllableCapacity == CapacitySum(cfg.pvInverters, FALSE, 1)
        controllableCapacity == CapacitySum(cfg.pvInverters, TRUE, 1)
        currentPvGeneration == GenerationSum(current.pvInverterGenerations, 1)
        effectiveConsumption ==
            RAdd(RInt(current.consumption
                      + (IF dec.loadState THEN cfg.loadNominalPower ELSE 0)),
                 dec.batteryPower)
        excess == RMax(RInt(0), RSub(RInt(currentPvGeneration), effectiveConsumption))
    IN IF current.consumptionPrice < 0
       THEN [setpoint |-> RInt(nonControllableCapacity), rule |-> "consumption"]
       ELSE IF current.injectionPrice < 0
       THEN [setpoint |-> RAdd(RInt(nonControllableCapacity),
                               ControllableNeeded(excess, controllableCapacity)),
             rule |-> "injection"]
       ELSE [setpoint |-> RInt(nonControllableCapacity + controllableCapacity),
             rule |-> "none"]

SetpointReason(rule) ==
    IF rule = "consumption"
    THEN Txt("negative consumption price - PV setpoint limited to non-controllable capacity")
    ELSE IF rule = "injection"
    THEN Txt("negative injection price - PV setpoint limited to avoid excess")
    ELSE Txt("no setpoint limitation needed")

calculatePvSetpoint(current, dec, cfg) ==
    LET result == PvSetpoint(current, dec, cfg)
    IN [setpoint |-> result.setpoint, reason |-> SetpointReason(result.rule)]

\* the decision of costOptimizationControlCycle, read against the store `states`
costOptimizationDecision(states, currentSlot, current, cfg, forecast) ==
    LET chargeDecision == costOptimization_shouldChargeNow(current, cfg, forecast)
        dischargeDecision == costOptimization_shouldDischargeNow(current, cfg, forecast)
        charging == RLt(RInt(0), chargeDecision.power)
        holdReason == Txt("Charge decision: ") \o chargeDecision.reason
                      \o Txt("<br />Discharge decision: ") \o dischargeDecision.reason
        loadDecision ==
            costOptimization_determineLoadState(states, currentSlot, cfg, current, forecast)
        d1 == [batteryPower |-> IF charging THEN chargeDecision.power
                                ELSE IF dischargeDecision.power > 0
                                     THEN RInt(-dischargeDecision.power) ELSE RInt(0),
               pvActivePowerSetpoint |-> RInt(0),
               loadState |-> loadDecision.state,
               loadDecisionReason |-> loadDecision.reason,
               batteryDecisionReason |-> IF charging THEN chargeDecision.reason
                                         ELSE holdReason,
               curtailmentDecisionReason |-> <<>>]
        setpointResult == calculatePvSetpoint(current, d1, cfg)
    IN [d1 EXCEPT !.pvActivePowerSetpoint = setpointResult.setpoint,
                  !.curtailmentDecisionReason = setpointResult.reason]

\* ------------------------------------------ strategies: peak shaving
PeakShavingSuffix == Txt(" (peak shaving)")

peakShavingBatteryControl(current, cfg, currentGridPower) ==
    LET chargeOverrule == TradingCharge(current, cfg)
        dischargeOverrule == TradingDischarge(current, cfg)
        availableDischargeEnergy ==
            SocEnergy(current.soc, cfg) - SocEnergy(cfg.minSoc, cfg)
        maxDischargePower == Min2(cfg.maxDischargeRate, cfg.gridCapacityExportLimit)
        availableChargeEnergy ==
            SocEnergy(cfg.maxSoc, cfg) - SocEnergy(current.soc, cfg)
        actualDischargePower ==
            Min3(currentGridPower - cfg.peakShavingDischargeStart, maxDischargePower,
                 availableDischargeEnergy)
        actualChargePower ==
            Min3(cfg.peakShavingChargeStart - currentGridPower, cfg.maxChargeRate,
                 availableChargeEnergy)
    IN IF chargeOverrule.handled
       THEN \* one switch: a positive request charges, a negative one discharges
            IF current.tradingSignal = "overrule"
               /\ current.tradingSignalRequestedPower < 0
            THEN [power |-> -dischargeOverrule.power,
                  reason |-> dischargeOverrule.reason \o PeakShavingSuffix]
            ELSE [power |-> chargeOverrule.power,
                  reason |-> chargeOverrule.reason \o PeakShavingSuffix]
       ELSE IF current.soc <= cfg.minSoc
       THEN [power |-> 0, reason |-> Txt("battery empty (peak shaving)")]
       ELSE IF current.soc >= cfg.maxSoc
       THEN [power |-> 0, reason |-> Txt("battery full (peak shaving)")]
       ELSE IF currentGridPower > cfg.peakShavingDischargeStart
       THEN [power |-> -actualDischargePower,
             reason |-> TxtN("peak shaving: discharging (kW)", actualDischargePower)
                        \o TxtN("to reduce grid power from", currentGridPower)
                        \o TxtN("to", cfg.peakShavingDischargeStart)]
       ELSE IF currentGridPower < cfg.peakShavingDischargeStop
               /\ currentGridPower > cfg.peakShavingChargeStop
       THEN [power |-> 0,
             reason |-> TxtN("peak shaving: no action between discharge stop and charge stop, grid power",
                             currentGridPower)]
       ELSE IF currentGridPower < cfg.peakShavingChargeStart
       THEN [power |-> actualChargePower,
             reason |-> TxtN("peak shaving: charging (kW)", actualChargePower)
                        \o TxtN("to increase grid power from", currentGridPower)
                        \o TxtN("to", cfg.peakShavingChargeStart)]
       ELSE [power |-> 0,
             reason |-> TxtN("peak shaving: no action between charge start and charge stop, grid power",
                             currentGridPower)]

peakShaving_determineLoadState(currentSlot, batteryPower, cfg, current) ==
    IF current.consumptionPrice < 0
    THEN [state |-> TRUE, reason |-> Txt("negative consumption price (peak shaving)")]
    ELSE [state |-> FALSE, reason |-> Txt("no negative prices (peak shaving)")]

peakShaving_calculatePvSetpoint(current, dec, cfg) ==
    LET result == PvSetpoint(current, dec, cfg)
    IN [setpoint |-> result.setpoint,
        reason |-> SetpointReason(result.rule) \o PeakShavingSuffix]

\* the decision of peakShavingControlCycle
peakShavingDecision(currentSlot, current, cfg, forecast) ==
    LET currentGridPower == current.consumption - current.pvGeneration
        battery == peakShavingBatteryControl(current, cfg, currentGridPower)
        loadDecision ==
            peakShaving_determineLoadState(currentSlot, battery.power, cfg, current)
        d1 == [batteryPower |-> RInt(battery.power),
               pvActivePowerSetpoint |-> RInt(0),
               loadState |-> loadDecision.state,
               loadDecisionReason |-> loadDecision.reason,
               batteryDecisionReason |-> battery.reason,
               curtailmentDecisionReason |-> <<>>]
        setpointResult == peakShaving_calculatePvSetpoint(current, d1, cfg)
    IN [d1 EXCEPT !.pvActivePowerSetpoint = setpointResult.setpoint,
                  !.curtailmentDecisionReason = setpointResult.reason]

\* ------------------------------------------------------------ input sets
Inverters ==
    << [id |-> "pv1", capacity |-> 4, hasPrice |-> FALSE, pricePerMWh |-> 0,
        controllable |-> TRUE],
       [id |-> "pv2", capacity |-> 4, hasPrice |-> TRUE, pricePerMWh |-> 40,
        controllable |-> FALSE] >>

DefaultConfig ==
    [optimizationStrategy |-> "cost_optimization",
     tradingSignalEnabled |-> FALSE,
     peakShavingDischargeStart |-> 4, peakShavingDischargeStop |-> 2,
     peakShavingChargeStop |-> 0, peakShavingChargeStart |-> -2,
     batteryCapacity |-> 50, maxChargeRate |-> 4, maxDischargeRate |-> 4,
     initialSoc |-> 12, minSoc |-> 10, maxSoc |-> 14,
     batteryRoundTripEfficiency |-> 80, batteryMinPriceDifference |-> 20,
     loadMinRuntimeActivation |-> 2, loadMinRuntimeDaily |-> 1,
     loadRuntimeDeadlineHour |-> 20,
     loadActivationPower |-> 4, loadNominalPower |-> 6,
     gridCapacityImportLimit |-> 12, gridCapacityExportLimit |-> 8,
     pvInverters |-> Inverters]

\* a generated data point before the run (data-generator: soc = initialSoc,
\* pvGeneration = the sum of the inverter generations)
Point(cp, ip, c, g1, g2, f, sig, req) ==
    [consumptionPrice |-> cp, injectionPrice |-> ip, consumption |-> c,
     pvGeneration |-> g1 + g2, pvForecast |-> f,
     pvInverterGenerations |->
         IF g1 + g2 = 0 THEN <<>>
         ELSE << [inverterId |-> "pv1", generation |-> g1],
                 [inverterId |-> "pv2", generation |-> g2] >>,
     tradingSignal |-> sig, tradingSignalRequestedPower |-> req]

\* controlCycle never reads the trading signal of a point
SimulatorPoints ==
    { Point(-10, -20, 2, 4, 0, 4, "local", 0),
      Point(20, 10, 2, 0, 0, 0, "local", 0),
      Point(60, 30, 6, 0, 0, 0, "standby", 0),
      Point(20, 10, 0, 4, 4, 8, "overrule", 6),
      Point(20, -5, 2, 4, 0, 4, "local", 0),
      Point(-10, -20, 6, 1, 0, 1, "local", 0) }

\* the slots after the simulated ones are only looked ahead to
SimulatorForecastPoints ==
    { Point(-10, -20, 2, 4, 0, 4, "local", 0),
      Point(60, 30, 6, 0, 0, 0, "standby", 0) }

\* <<initialSoc, minSoc, maxSoc>>; the last one is a battery without a usable range
SimulatorBatteries == {<<10, 10, 14>>, <<12, 10, 14>>, <<14, 10, 14>>, <<12, 12, 12>>}

\* controlCycle never reads tradingSignalEnabled: the switch is drawn together
\* with the daily minimum runtime, and so is the minimum runtime per
\* activation (one slot without a daily minimum, two with it); the load is a
\* small one (2 kW) for one pair of limits, one above the import limit (12 kW)
\* for another and 6 kW for the others
SimulatorConfigs ==
    { [DefaultConfig EXCEPT !.gridCapacityImportLimit = limits[1],
                            !.gridCapacityExportLimit = limits[2],
                            !.loadMinRuntimeDaily = daily,
                            !.loadMinRuntimeActivation = daily + 1,
                            !.loadNominalPower = IF limits = <<12, 0>> THEN 2
                                                 ELSE IF limits = <<8, 8>> THEN 12 ELSE 6,
                            !.tradingSignalEnabled = (daily = 0),
                            !.initialSoc = battery[1],
                            !.minSoc = battery[2],
                            !.maxSoc = battery[3]] :
        limits \in {<<4, 0>>, <<8, 8>>, <<12, 0>>, <<10, 8>>},
        daily \in {0, 1}, battery \in SimulatorBatteries }

\* the run starts at 19:45, two slots before the load deadline, or at 23:45,
\* one slot before midnight
StartQuarters == {79, 95}

\* a series that starts at quarter-hour `start` ends on the next day
RunsOverMidnight(start) ==
    SlotTime(start + TOTAL_SLOTS - 1).day > SlotTime(start).day

\* the runs: every configuration for the evening runs; the runs over midnight
\* are drawn for one battery, with a usable SoC range
Runs(configs, midnightSoc) ==
    {run \in configs \X StartQuarters :
        RunsOverMidnight(run[2])
        => run[1].initialSoc = midnightSoc /\ run[1].minSoc < run[1].maxSoc}

\* the points of a series: simulated slots first, forecast slots after them
SeriesPoints(simulated, forecast) ==
    {points \in [1..TOTAL_SLOTS -> simulated \cup forecast] :
        /\ \A i \in 1..SIMULATION_SLOTS : points[i] \in simulated
        /\ \A i \in (SIMULATION_SLOTS + 1)..TOTAL_SLOTS : points[i] \in forecast}

\* the series as generated: point i at start + i quarter-hours
Series(points, start, cfg) ==
    [i \in 1..TOTAL_SLOTS |->
        points[i] @@ [time |-> SlotTime(start + i - 1) @@ [q |-> start + i - 1],
                      soc |-> cfg.initialSoc, batteryPower |-> 0, netPower |-> 0,
                      cost |-> 0, curtailment |-> 0, loadState |-> FALSE,
                      loadDecisionReason |-> <<>>, batteryDecisionReason |-> <<>>,
                      curtailmentDecisionReason |-> <<>>]]

EmptyDecision ==
    [batteryPower |-> 0, curtailment |-> 0, loadState |-> FALSE,
     loadDecisionReason |-> <<>>, batteryDecisionReason |-> <<>>,
     curtailmentDecisionReason |-> <<>>]

NoBase == [slot |-> -1]

\* the interval-driven component is not part of the runs of the other entry
\* points
NotMounted == [isRunning |-> FALSE]

InitSimulator ==
    /\ engine = "controlCycle"
    /\ \E run \in Runs(SimulatorConfigs, DefaultConfig.initialSoc),
          points \in SeriesPoints(SimulatorPoints, SimulatorForecastPoints) :
           /\ config = run[1]
           /\ data = Series(points, run[2], run[1])
    /\ slot = 0
    /\ decision = EmptyDecision
    /\ base = NoBase
    /\ loadStates = <<>>
    /\ simulator = NotMounted

\* ------------------------------------------------- battery-simulator.tsx
\* (energyChange / batteryCapacity) * 100 with energyChange = batteryPower * 0.25
SocChange(batteryPower, cfg) ==
    (batteryPower * 100) \div (cfg.batteryCapacity * SlotsPerHour)

\* fault: the SoC update without the clamp
ClampSoc_unclamped(soc, cfg) == soc

ClampSoc(soc, cfg) == Max2(cfg.minSoc, Min2(cfg.maxSoc, soc))

\* one iteration of the loop of runFullSimulation
SimulateSlot ==
    /\ engine = "controlCycle"
    /\ slot < SIMULATION_SLOTS
    /\ \E b \in {BaseDecision(slot, data, config)} :
       \E d \in {applyGridCapacityLimits(At(data, slot), b, config)} :
       LET current == At(data, slot)
           effectiveConsumption ==
               current.consumption + (IF d.loadState THEN config.loadNominalPower ELSE 0)
           netPower == effectiveConsumption + d.batteryPower - current.pvGeneration
                       + d.curtailment
           price == IF netPower >= 0 THEN current.consumptionPrice
                    ELSE current.injectionPrice
           soc == ClampSoc(current.soc + SocChange(d.batteryPower, config), config)
           updated == [current EXCEPT
                          !.batteryPower = d.batteryPower,
                          !.curtailment = d.curtailment,
                          !.loadState = d.loadState,
                          !.loadDecisionReason = d.loadDecisionReason,
                          !.batteryDecisionReason = d.batteryDecisionReason,
                          !.curtailmentDecisionReason = d.curtailmentDecisionReason,
                          !.consumption = effectiveConsumption,
                          !.netPower = netPower,
                          \* in units of 1/4000 euro: price per MWh, quarter-hours
                          !.cost = netPower * price,
                          !.soc = soc]
       IN /\ data' = [i \in 1..Len(data) |->
                         IF i = slot + 1 THEN updated
                         ELSE IF i = slot + 2 THEN [data[i] EXCEPT !.soc = soc]
                         ELSE data[i]]
          /\ decision' = d
          /\ base' = [slot |-> slot, current |-> current,
                      decision |-> b]
    /\ slot' = slot + 1
    /\ UNCHANGED <<engine, config, loadStates, simulator>>

\* after the loop: the final SoC is carried over the remaining forecast slots
CarryFinalSoc ==
    /\ engine = "controlCycle"
    /\ slot = SIMULATION_SLOTS
    /\ data' = [i \in 1..Len(data) |->
                   IF i > SIMULATION_SLOTS
                   THEN [data[i] EXCEPT !.soc = data[SIMULATION_SLOTS].soc]
                   ELSE data[i]]
    /\ slot' = TOTAL_SLOTS + 1
    /\ UNCHANGED <<engine, config, decision, base, loadStates, simulator>>

\* -------------------------------------------------- the strategy cycles
StrategyPoints ==
    { Point(-10, -20, 2, 4, 0, 4, "local", 0),
      Point(-20, -20, 2, 0, 0, 0, "local", 0),
      Point(-10, -20, 6, 0, 0, 0, "overrule", -4),
      Point(20, -5, 0, 4, 4, 8, "overrule", 6),
      Point(60, 30, 6, 0, 0, 0, "standby", 0),
      Point(60, 30, 0, 4, 0, 4, "local", 0) }

StrategyForecastPoints ==
    { Point(-20, -20, 2, 0, 0, 0, "local", 0),
      Point(60, 30, 6, 0, 0, 0, "standby", 0) }

StrategyBatteries == {<<10, 10, 14>>, <<11, 10, 14>>, <<14, 10, 14>>, <<12, 12, 12>>}

\* the daily minimum runtime is drawn together with the trading switch: one
\* slot with the switch on, two with it off
StrategyConfigs ==
    { [DefaultConfig EXCEPT !.optimizationStrategy = strategy,
                            !.tradingSignalEnabled = trading,
                            !.loadMinRuntimeDaily = IF trading THEN 1 ELSE 2,
                            !.initialSoc = battery[1],
                            !.minSoc = battery[2],
                            !.maxSoc = battery[3]] :
        strategy \in {"cost_optimization", "peak_shaving"},
        trading \in BOOLEAN, battery \in StrategyBatteries }

\* the store is kept in localStorage: empty after initializeSimulation, or
\* holding the records an earlier run left behind
LeftoverStates ==
    [i \in 1..SIMULATION_SLOTS |-> [slotIndex |-> i - 1, loadState |-> TRUE]]

StrategyDecision(states, currentSlot, series, cfg) ==
    IF cfg.optimizationStrategy = "peak_shaving"
    THEN peakShavingDecision(currentSlot, At(series, currentSlot), cfg,
                             Forecast(currentSlot, series))
    ELSE costOptimizationDecision(states, currentSlot, At(series, currentSlot), cfg,
                                  Forecast(currentSlot, series))

InitStrategy ==
    /\ \E run \in Runs(StrategyConfigs, DefaultConfig.initialSoc - 1),
          points \in SeriesPoints(StrategyPoints, StrategyForecastPoints) :
           /\ config = run[1]
           /\ data = Series(points, run[2], run[1])
    /\ engine = config.optimizationStrategy
    /\ slot = 0
    /\ decision = EmptyDecision
    /\ base = NoBase
    /\ loadStates \in (IF engine = "peak_shaving" THEN {<<>>}
                       ELSE {<<>>, LeftoverStates})
    /\ simulator = NotMounted

\* one call of a strategy's control cycle for the slot `slot`
StrategyCycle(strategy) ==
    /\ engine = strategy
    /\ slot < SIMULATION_SLOTS
    /\ \E d \in {StrategyDecision(loadStates, slot, data, config)} :
          /\ decision' = d
          /\ loadStates' = storeLoadState(loadStates, slot, d.loadState)
    /\ base' = [slot |-> slot, current |-> At(data, slot), loadStates |-> loadStates]
    /\ slot' = slot + 1
    /\ UNCHANGED <<engine, config, data, simulator>>

CostOptimizationCycle == StrategyCycle("cost_optimization")

PeakShavingCycle == StrategyCycle("peak_shaving")

\* ------------------------- storage.ts: the interval-driven BatterySimulator
\* The component and the control cycle it calls are of an earlier schema
\* (BatteryConfig, a single price per slot). Prices are in cents per kWh; the
\* SoC, the powers and the costs are exact rationals.
EffectRunsLeft ==
    simulator.processed[simulator.currentSlot] < MaxEffectRuns

\* .sort((a, b) => a.price - b.price) over the indices of the window, or
\* b.price - a.price; Array.prototype.sort is stable
RECURSIVE SortSlotsByPrice(_, _, _)
SortSlotsByPrice(indices, forecast, ascending) ==
    IF indices = {} THEN <<>>
    ELSE LET Before(i, j) ==
                 LET pi == At(forecast, i).price
                     pj == At(forecast, j).price
                 IN IF pi = pj THEN i < j
                    ELSE IF ascending THEN pi < pj ELSE pi > pj
             first == CHOOSE i \in indices : \A j \in indices \ {i} : Before(i, j)
         IN <<first>> \o SortSlotsByPrice(indices \ {first}, forecast, ascending)

\* the indices of the cheapest 25% of the slots of the window
getCheapestChargeSlots(forecast, currentSoc, cfg) ==
    IF RLe(RInt(cfg.maxSoc), currentSoc) THEN <<>>
    ELSE SubSeq(SortSlotsByPrice(0..(Len(forecast) - 1), forecast, TRUE),
                1, CeilDiv(Len(forecast), 4))

\* the indices of the most expensive 25% of the slots of the window
getBestDischargeSlots(forecast, currentSoc, cfg) ==
    IF RLe(currentSoc, RInt(cfg.minSoc)) THEN <<>>
    ELSE SubSeq(SortSlotsByPrice(0..(Len(forecast) - 1), forecast, FALSE),
                1, CeilDiv(Len(forecast), 4))

RECURSIVE DeficitSum(_)
DeficitSum(slots) ==
    IF slots = <<>> THEN 0
    ELSE Max2(0, Head(slots).consumption - Head(slots).pvForecast)
         + DeficitSum(Tail(slots))

storage_shouldChargeNow(currentSlot, cheapestSlots, current, cfg, forecast) ==
    LET futureDeficit == DeficitSum(Slice(forecast, 0, 8))
        available == RDiv(RMul(RSub(RInt(cfg.maxSoc), current.soc),
                               RInt(cfg.batteryCapacity)), RInt(400))
    IN IF ~InSeq(currentSlot, cheapestSlots) /\ current.price > cfg.priceThreshold
       THEN RInt(0)
       ELSE IF RLe(RInt(cfg.maxSoc), current.soc) THEN RInt(0)
       ELSE IF futureDeficit <= 0 /\ current.price > cfg.priceThreshold THEN RInt(0)
       ELSE RMin(RInt(cfg.maxChargeRate), available)

storage_shouldDischargeNow(currentSlot, mostExpensiveSlots, current, cfg) ==
    LET available == RDiv(RMul(RSub(current.soc, RInt(cfg.minSoc)),
                               RInt(cfg.batteryCapacity)), RInt(400))
    IN IF ~InSeq(currentSlot, mostExpensiveSlots) /\ current.price < cfg.priceThreshold
       THEN RInt(0)
       ELSE IF RLe(current.soc, RInt(cfg.minSoc)) THEN RInt(0)
       ELSE RMin(RInt(cfg.maxDischargeRate), available)

\* the battery power of the decision of the control cycle of storage.ts; the
\* component reads nothing else of the decision
storage_controlCycle(currentSlot, series, cfg) ==
    LET current == At(series, currentSlot)
        horizon == Min2(12, Len(series) - currentSlot)
        forecast == Slice(series, currentSlot, currentSlot + horizon)
        cheapestSlots == getCheapestChargeSlots(forecast, current.soc, cfg)
        mostExpensiveSlots == getBestDischargeSlots(forecast, current.soc, cfg)
        chargePower ==
            storage_shouldChargeNow(currentSlot, cheapestSlots, current, cfg, forecast)
        dischargePower ==
            storage_shouldDischargeNow(currentSlot, mostExpensiveSlots, current, cfg)
    IN IF RLt(RInt(0), chargePower) THEN chargePower
       ELSE IF RLt(RInt(0), dischargePower) THEN RNeg(dischargePower)
       ELSE RInt(0)

\* batteryConfigSchema: the defaults for the SoC, a battery of 100 kWh with
\* rates of 4 kW, and a price threshold between the cheap and the dear slots
BatteryConfigs ==
    { [batteryCapacity |-> 100, maxChargeRate |-> 4, maxDischargeRate |-> 4,
       initialSoc |-> 50, minSoc |-> 5, maxSoc |-> 95, priceThreshold |-> 30] }

\* <<price, consumption, pvGeneration, pvForecast>> of a generated slot: a
\* cheap slot and a dear one
GeneratedSlots == { <<10, 2, 0, 0>>, <<50, 6, 0, 0>> }

\* generateSimulationData(config.initialSoc): every slot at the initial SoC
GeneratedData(slots, cfg) ==
    [i \in 1..TOTAL_SLOTS |->
        [price |-> slots[i][1], consumption |-> slots[i][2],
         pvGeneration |-> slots[i][3], pvForecast |-> slots[i][4],
         soc |-> RInt(cfg.initialSoc), batteryPower |-> RInt(0),
         netPower |-> RInt(0), cost |-> RInt(0)]]

\* the state of the component: its React state and intervalRef; effectPending
\* says that a dependency of the slot effect changed since the effect last
\* ran; processed counts, per slot, how often the effect applied the SoC
\* update and the cost of the slot since the run was started
Mounted(cfg, generated) ==
    [config |-> cfg, generated |-> generated,
     isRunning |-> FALSE, currentSlot |-> 0, simulationData |-> <<>>,
     totalCost |-> RInt(0), intervalRef |-> FALSE, effectPending |-> FALSE,
     processed |-> [i \in 0..(TOTAL_SLOTS - 1) |-> 0]]

InitBatterySimulator ==
    /\ engine = "BatterySimulator"
    /\ \E cfg \in BatteryConfigs, slots \in [1..TOTAL_SLOTS -> GeneratedSlots] :
           simulator = Mounted(cfg, GeneratedData(slots, cfg))
    /\ config = DefaultConfig
    /\ data = <<>>
    /\ slot = 0
    /\ decision = EmptyDecision
    /\ base = NoBase
    /\ loadStates = <<>>

\* startSimulation: returns at once while a run is on
startSimulation ==
    /\ engine = "BatterySimulator"
    /\ ~simulator.isRunning
    /\ simulator' = [simulator EXCEPT
                        !.isRunning = TRUE,
                        !.currentSlot = 0,
                        !.totalCost = RInt(0),
                        !.simulationData = simulator.generated,
                        !.intervalRef = TRUE,
                        !.effectPending = TRUE,
                        !.processed = [i \in 0..(TOTAL_SLOTS - 1) |-> 0]]
    /\ UNCHANGED <<engine, config, data, slot, decision, base, loadStates>>

\* stopSimulation, as the stop button calls it
stopSimulation ==
    /\ engine = "BatterySimulator"
    /\ simulator.isRunning
    /\ simulator' = [simulator EXCEPT !.isRunning = FALSE,
                                      !.intervalRef = FALSE,
                                      !.effectPending = TRUE]
    /\ UNCHANGED <<engine, config, data, slot, decision, base, loadStates>>

\* a tick of the interval: setCurrentSlot with its updater, which stops the
\* run at the last slot. React runs the effects of a commit before it renders
\* the next update, so a tick finds the current slot processed at least once.
IntervalTick ==
    /\ engine = "BatterySimulator"
    /\ simulator.intervalRef
    /\ simulator.processed[simulator.currentSlot] >= 1
    /\ LET nextSlot == simulator.currentSlot + 1
       IN simulator' =
              IF nextSlot >= Len(simulator.generated)
              THEN [simulator EXCEPT !.isRunning = FALSE,
                                     !.intervalRef = FALSE,
                                     !.effectPending = TRUE]
              ELSE [simulator EXCEPT !.currentSlot = nextSlot,
                                     !.effectPending = TRUE]
    /\ UNCHANGED <<engine, config, data, slot, decision, base, loadStates>>

\* the effect on [currentSlot, isRunning, config, simulationData]: it
\* processes the current slot and stores a new array, which is a changed
\* dependency of the effect itself
SlotEffect ==
    /\ engine = "BatterySimulator"
    /\ simulator.effectPending
    /\ IF simulator.isRunning /\ simulator.currentSlot < Len(simulator.simulationData)
       THEN /\ EffectRunsLeft
            /\ LET currentSlot == simulator.currentSlot
                   cfg == simulator.config
                   current == At(simulator.simulationData, currentSlot)
                   batteryPower ==
                       storage_controlCycle(currentSlot, simulator.simulationData, cfg)
                   netPower == RSub(RInt(current.consumption - current.pvGeneration),
                                    batteryPower)
                   cost == RMul(RMax(RInt(0), netPower), Rat(current.price, 4))
                   socChange == RDiv(RMul(batteryPower, RInt(25)),
                                     RInt(cfg.batteryCapacity))
                   soc == RMax(RInt(cfg.minSoc),
                               RMin(RInt(cfg.maxSoc), RAdd(current.soc, socChange)))
                   updatedData ==
                       [i \in 1..Len(simulator.simulationData) |->
                           IF i = currentSlot + 1
                           THEN [current EXCEPT !.batteryPower = batteryPower,
                                                !.netPower = netPower,
                                                !.cost = cost,
                                                !.soc = soc]
                           ELSE IF i = currentSlot + 2
                           THEN [simulator.simulationData[i] EXCEPT !.soc = soc]
                           ELSE simulator.simulationData[i]]
               IN simulator' =
                      [simulator EXCEPT
                          !.simulationData = updatedData,
                          !.totalCost = RAdd(@, cost),
                          !.processed[currentSlot] = @ + 1,
                          !.effectPending = TRUE]
       ELSE simulator' = [simulator EXCEPT !.effectPending = FALSE]
    /\ UNCHANGED <<engine, config, data, slot, decision, base, loadStates>>

Init == InitSimulator \/ InitStrategy \/ InitBatterySimulator

Next ==
    \/ SimulateSlot
    \/ CarryFinalSoc
    \/ CostOptimizationCycle
    \/ PeakShavingCycle
    \/ startSimulation
    \/ stopSimulation
    \/ IntervalTick
    \/ SlotEffect

Spec == Init /\ [][Next]_vars

\* ---------------------------------------------------------------- claims
\* a control cycle has run; base holds the slot it ran for and its inputs
Decided == base.slot >= 0

Simulated == engine = "controlCycle" /\ Decided

StrategyRan == engine \in {"cost_optimization", "peak_shaving"} /\ Decided

\* the flow the simulator measures for the decided slot
NetGridFlow ==
    base.current.consumption
    + (IF decision.loadState THEN config.loadNominalPower ELSE 0)
    + decision.batteryPower - base.current.pvGeneration + decision.curtailment

BaselineWithinLimits ==
    /\ base.current.consumption <= config.gridCapacityImportLimit
    /\ base.current.consumption >= -config.gridCapacityExportLimit

\* C1: after applyGridCapacityLimits, the net grid flow consumption + load +
\* battery - PV + curtailment lies within [-export limit, import limit]
\* whenever the baseline consumption alone lies within that range.
GridFlowWithinLimits ==
    (Simulated /\ BaselineWithinLimits)
    => /\ NetGridFlow <= config.gridCapacityImportLimit
       /\ NetGridFlow >= -config.gridCapacityExportLimit

\* the import branch switched the load off and then released curtailment
GridFlowCase ==
    /\ Simulated /\ BaselineWithinLimits
    /\ base.decision.loadState /\ ~decision.loadState
    /\ decision.curtailment < base.decision.curtailment

\* the battery power of the decision as a rational, whichever engine made it
EmittedBatteryPower ==
    IF engine = "controlCycle" THEN RInt(decision.batteryPower)
    ELSE decision.batteryPower

\* C2: the emitted battery power lies within
\* [-maxDischargeRate, maxChargeRate] in every branch of every engine,
\* the grid limit adjustments included.
BatteryPowerWithinRates ==
    Decided
    => /\ RLe(RInt(-config.maxDischargeRate), EmittedBatteryPower)
       /\ RLe(EmittedBatteryPower, RInt(config.maxChargeRate))

\* a trading overrule asked for more than the charge rate and was cut to it
BatteryPowerCase ==
    /\ engine = "cost_optimization" /\ Decided
    /\ config.tradingSignalEnabled
    /\ base.current.tradingSignal = "overrule"
    /\ base.current.tradingSignalRequestedPower > config.maxChargeRate
    /\ decision.batteryPower = RInt(config.maxChargeRate)

\* C3 as stated: at a negative consumption price the emitted battery power
\* is never negative, for every trading signal and requested power.
NoDischargeAtNegativePrice ==
    (Decided /\ base.current.consumptionPrice < 0)
    => RLe(RInt(0), EmittedBatteryPower)

DischargeOverrule ==
    /\ config.tradingSignalEnabled
    /\ base.current.tradingSignal = "overrule"
    /\ base.current.tradingSignalRequestedPower < 0

\* C3 amended: at a negative consumption price the battery power emitted by
\* controlCycle, and by the cost optimization strategy when no trading
\* overrule asks for a discharge, is never negative.
NoLocalDischargeAtNegativePrice ==
    (/\ Decided /\ engine \in {"controlCycle", "cost_optimization"}
     /\ base.current.consumptionPrice < 0
     /\ ~DischargeOverrule)
    => RLe(RInt(0), EmittedBatteryPower)

\* a full battery at a negative price with a deficit to cover: nothing charges
\* and the discharge evaluation is what keeps the battery idle
NegativePriceCase ==
    /\ engine = "cost_optimization" /\ Decided
    /\ base.current.consumptionPrice < 0
    /\ ~DischargeOverrule
    /\ base.current.soc > config.minSoc
    /\ base.current.consumption > base.current.pvGeneration
    /\ decision.batteryPower = RInt(0)

\* C4: if the load was on in slot i-1 and its run of consecutive on-slots is
\* shorter than loadMinRuntimeActivation, the load state emitted and written
\* for slot i is on.
MinimumActivationHeld ==
    (/\ Simulated /\ base.slot >= 1
     /\ At(data, base.slot - 1).loadState
     /\ ActivationRuntime(data, base.slot - 1) < config.loadMinRuntimeActivation)
    => (decision.loadState /\ At(data, base.slot).loadState)

\* determineLoadState held the load on for the minimum activation runtime
MinimumActivationCase ==
    /\ Simulated /\ base.slot >= 1
    /\ At(data, base.slot - 1).loadState
    /\ ActivationRuntime(data, base.slot - 1) < config.loadMinRuntimeActivation
    /\ base.decision.loadState

\* s is clamp(soc + batteryPower * 0.25 / batteryCapacity * 100, minSoc, maxSoc),
\* compared in units of 1 / (batteryCapacity * 4) percent
IsNextSoc(s, soc, batteryPower, cfg) ==
    LET scale == cfg.batteryCapacity * SlotsPerHour
        raw == soc * scale + batteryPower * 100
    IN IF raw < cfg.minSoc * scale THEN s = cfg.minSoc
       ELSE IF raw > cfg.maxSoc * scale THEN s = cfg.maxSoc
       ELSE s * scale = raw

\* C5: after each slot's update in a run the SoC lies in [minSoc, maxSoc], and
\* the SoC the next slot is evaluated at is
\* clamp(SoC + batteryPower * 0.25 / batteryCapacity * 100, minSoc, maxSoc).
SocClampedAndCarried ==
    Simulated
    => /\ At(data, base.slot).soc >= config.minSoc
       /\ At(data, base.slot).soc <= config.maxSoc
       /\ IsNextSoc(At(data, base.slot).soc, base.current.soc,
                    decision.batteryPower, config)
       /\ At(data, base.slot + 1).soc = At(data, base.slot).soc

\* the battery was told to charge while full, and the clamp kept the SoC
SocClampCase ==
    /\ Simulated
    /\ base.current.soc = config.maxSoc
    /\ decision.batteryPower > 0
    /\ At(data, base.slot + 1).soc = config.maxSoc

TotalInverterCapacity ==
    CapacitySum(config.pvInverters, TRUE, 1) + CapacitySum(config.pvInverters, FALSE, 1)

\* C6: the emitted PV active power setpoint is never negative and never
\* above the sum of the capacities of the configured inverters.
PvSetpointWithinCapacity ==
    StrategyRan
    => /\ RLe(RInt(0), decision.pvActivePowerSetpoint)
       /\ RLe(decision.pvActivePowerSetpoint, RInt(TotalInverterCapacity))

\* at a negative injection price the PV excess is above the controllable
\* capacity, and the setpoint stops at the total capacity
PvSetpointCase ==
    /\ StrategyRan
    /\ base.current.consumptionPrice >= 0 /\ base.current.injectionPrice < 0
    /\ RLt(RInt(CapacitySum(config.pvInverters, TRUE, 1)),
           RSub(RInt(base.current.pvGeneration),
                RAdd(RInt(base.current.consumption
                          + (IF decision.loadState THEN config.loadNominalPower ELSE 0)),
                     decision.batteryPower)))
    /\ decision.pvActivePowerSetpoint = RInt(TotalInverterCapacity)

\* C7: a second call of the control cycle for the same slot, series and
\* configuration, made on the store the first call left, returns the same
\* decision (powers, load state, setpoint and the three reasons) and leaves
\* the store as it is.
RepeatedCycleSameDecision ==
    StrategyRan
    => LET again == StrategyDecision(loadStates, base.slot, data, config)
       IN /\ again = decision
          /\ storeLoadState(loadStates, base.slot, again.loadState) = loadStates

\* the first call wrote an on-state for its slot, which a second call finds
\* in the store
RepeatedCycleCase ==
    /\ engine = "cost_optimization" /\ Decided
    /\ base.loadStates = <<>>
    /\ decision.loadState
    /\ base.current.consumptionPrice >= 0
    /\ RecordedOn(loadStates, base.slot)

HasRecord(states, i) == FindIndex(states, i) > 0

LocalDischargePath ==
    /\ engine = "cost_optimization" /\ Decided
    /\ ~(config.tradingSignalEnabled /\ base.current.tradingSignal # "local")
    /\ base.current.soc > config.minSoc
    /\ base.current.consumptionPrice >= 0
    /\ LET forecast == Forecast(base.slot, data)
       IN FirstNegativeSlot(forecast,
              getNegativePriceLookaheadHorizon(base.current, config, forecast)) <= 0

DischargePower ==
    costOptimization_shouldDischargeNow(base.current, config,
                                        Forecast(base.slot, data)).power

\* C9: in the local discharge path the discharge power is
\* min(consumption - PV, maxDischargeRate, (energy above minSoc - energy
\* reserved for dearer slots) / 0.25 h) when that is positive and 0
\* otherwise, and one slot of it leaves the SoC at or above minSoc.
LocalDischargePower ==
    LocalDischargePath
    => LET energyAboveMinSoc == SocEnergy(base.current.soc - config.minSoc, config)
           reserved == FutureNeed(base.current, config, Forecast(base.slot, data))
           claimed == Min3(base.current.consumption - base.current.pvGeneration,
                           config.maxDischargeRate, energyAboveMinSoc - reserved)
       IN /\ DischargePower = (IF claimed > 0 THEN claimed ELSE 0)
          /\ base.current.soc * config.batteryCapacity * SlotsPerHour
                 - DischargePower * 100
             >= config.minSoc * config.batteryCapacity * SlotsPerHour

\* the energy above minSoc is what limits the discharge
LocalDischargeCase ==
    /\ LocalDischargePath
    /\ DischargePower > 0
    /\ DischargePower < config.maxDischargeRate
    /\ DischargePower < base.current.consumption - base.current.pvGeneration
    /\ decision.batteryPower = RInt(-DischargePower)

\* no slot of the contiguous run of negative prices after now is cheaper than now
NoCheaperNegativeSlot ==
    \A i \in NegativePriceSlots(base.current, Forecast(base.slot, data)) :
        At(Forecast(base.slot, data), i).consumptionPrice
        >= base.current.consumptionPrice

NegativePriceChargePath ==
    /\ Decided /\ engine \in {"controlCycle", "cost_optimization"}
    /\ base.current.consumptionPrice < 0
    /\ base.current.soc < config.maxSoc
    /\ ~(config.tradingSignalEnabled /\ base.current.tradingSignal # "local")
    /\ config.gridCapacityImportLimit
       > base.current.consumption + config.loadNominalPower
    /\ NoCheaperNegativeSlot

MentionsNegativePrice(reason) ==
    \E k \in 1..Len(reason) :
        reason[k][1] \in {"negative price: charge as much as possible",
                          "negative price: optimized charging over (slots)"}

\* C10: at a negative consumption price with SoC below maxSoc, no trading
\* override, headroom under the import limit above consumption plus the
\* load's nominal power and no cheaper later slot in the negative-price run,
\* the emitted battery power is positive and its reason names the negative
\* price.
NegativePriceCharges ==
    NegativePriceChargePath
    => /\ RLt(RInt(0), EmittedBatteryPower)
       /\ MentionsNegativePrice(decision.batteryDecisionReason)

\* the charge is shared with a later slot at the same negative price
NegativePriceChargeCase ==
    /\ NegativePriceChargePath /\ engine = "cost_optimization"
    /\ Cardinality(NegativePriceSlots(base.current, Forecast(base.slot, data))) > 1
    /\ RLt(RInt(0), decision.batteryPower)
    /\ RLt(decision.batteryPower, RInt(config.maxChargeRate))

\* ---- the load policy as the last cycle ran it
LoadPolicyRan == Decided /\ engine \in {"controlCycle", "cost_optimization"}

\* the load state the policy returned: controlCycle passes it on to the grid
\* capacity limits, the strategy emits it
PolicyLoadState ==
    IF engine = "controlCycle" THEN base.decision.loadState ELSE decision.loadState

\* the load state of the slot before, and the runs the policy read
PolicyPrevLoad ==
    IF engine = "controlCycle"
    THEN base.slot > 0 /\ At(data, base.slot - 1).loadState
    ELSE getPreviousLoadState(base.loadStates, base.slot)

PolicyActivationRuntime ==
    IF engine = "controlCycle"
    THEN (IF PolicyPrevLoad THEN ActivationRuntime(data, base.slot - 1) ELSE 0)
    ELSE getActivationRuntime(base.loadStates, base.slot)

PolicyTodayRuntime ==
    IF engine = "controlCycle"
    THEN Cardinality({i \in 0..(base.slot - 1) : At(data, i).loadState})
    ELSE getTodayRuntime(base.loadStates, base.slot, base.current.time)

\* k: the slots still needed, in slots of a quarter of an hour
SlotsStillNeeded == config.loadMinRuntimeDaily - PolicyTodayRuntime

\* the point of slot i as the cycle saw it
PointAt(i) == IF i = base.slot THEN base.current ELSE At(data, i)

\* today's slots from the current one up to the deadline hour
RemainingSlots ==
    {i \in base.slot..(Len(data) - 1) :
        /\ PointAt(i).time.day = base.current.time.day
        /\ IsBeforeDeadline(PointAt(i).time, config.loadRuntimeDeadlineHour)}

HeldByOtherRule ==
    \/ base.current.consumptionPrice < 0
    \/ PolicyPrevLoad /\ PolicyActivationRuntime < config.loadMinRuntimeActivation

CheapestFillPath ==
    /\ LoadPolicyRan
    /\ SlotsStillNeeded > 0
    /\ \A i \in RemainingSlots : ~HasPvOversupply(PointAt(i), config)

PolicySelectedSlots ==
    SelectSlots(RemainingSlots, [i \in RemainingSlots |-> PointAt(i)], config,
                SlotsStillNeeded)

DeadlineSlots(d) ==
    {i \in 0..(Len(data) - 1) :
        /\ At(data, i).time.day = d
        /\ IsBeforeDeadline(At(data, i).time, config.loadRuntimeDeadlineHour)}

\* on-slots of day d among the slots before slot s
OnTimeOfDay(d, s) ==
    Cardinality({i \in 0..(s - 1) : At(data, i).time.day = d /\ At(data, i).loadState})

\* the run has processed every slot of day d up to the deadline
DeadlinePassed(d) ==
    /\ engine = "controlCycle"
    /\ DeadlineSlots(d) # {}
    /\ \A i \in DeadlineSlots(d) : i < slot /\ i < SIMULATION_SLOTS

\* at some slot of day d enough slots remained for the runtime still needed
EnoughSlotsRemained(d) ==
    \E s \in DeadlineSlots(d) :
        Cardinality({i \in DeadlineSlots(d) : i >= s})
        >= config.loadMinRuntimeDaily - OnTimeOfDay(d, s)

RunDays == {At(data, i).time.day : i \in 0..(Len(data) - 1)}

\* C12: within one calendar day of a run, if at some slot the slots remaining
\* before the deadline hour are at least the slots still needed, then once
\* the deadline has passed the load's on-time of that day is at least
\* loadMinRuntimeDaily.
DailyRuntimeMetByDeadline ==
    \A d \in RunDays :
        (DeadlinePassed(d) /\ EnoughSlotsRemained(d))
        => OnTimeOfDay(d, SIMULATION_SLOTS) >= config.loadMinRuntimeDaily

\* the policy selected a slot for the daily runtime and the run is past the
\* deadline of that day
DailyRuntimeCase ==
    \E d \in RunDays :
        /\ DeadlinePassed(d) /\ EnoughSlotsRemained(d)
        /\ config.loadMinRuntimeDaily > 0
        /\ base.decision.loadState
        /\ base.current.consumptionPrice >= 0

\* ---- the import branch of the grid capacity limits
\* the flow of the decision before the grid capacity limits
BaseGridFlow ==
    base.current.consumption
    + (IF base.decision.loadState THEN config.loadNominalPower ELSE 0)
    + base.decision.batteryPower - base.current.pvGeneration
    + base.decision.curtailment

ExcessImport == BaseGridFlow - config.gridCapacityImportLimit

\* C13: when the flow exceeds the import limit by x > 0 and the battery is
\* charging at x or more, the grid capacity limits reduce the charge power by
\* exactly x, leave the load state and the curtailment as they were, and the
\* resulting flow equals the import limit.
ChargeReducedByExcess ==
    (Simulated /\ ExcessImport > 0 /\ base.decision.batteryPower >= ExcessImport)
    => /\ decision.batteryPower = base.decision.batteryPower - ExcessImport
       /\ decision.loadState = base.decision.loadState
       /\ decision.curtailment = base.decision.curtailment
       /\ NetGridFlow = config.gridCapacityImportLimit

\* part of the charge power is taken away while the load stays on and the PV
\* stays curtailed
ChargeReducedCase ==
    /\ Simulated /\ ExcessImport > 0
    /\ base.decision.batteryPower > ExcessImport
    /\ decision.batteryPower > 0
    /\ decision.loadState
    /\ decision.curtailment > 0

\* ---- today's runtime
\* the load was on in slot i, as the engine's history records it
WasOn(i) ==
    IF engine = "controlCycle" THEN At(data, i).loadState
    ELSE RecordedOn(base.loadStates, i)

\* C14: today's runtime at a slot is the number of quarter-hour slots before
\* it that fall on the same calendar day as its timestamp and in which the
\* load was on; on-slots of earlier days of the run are not counted.
TodayRuntimeCountsToday ==
    Decided
    => PolicyTodayRuntime
       = Cardinality({i \in 0..(base.slot - 1) :
                         /\ At(data, i).time.day = base.current.time.day
                         /\ WasOn(i)})

\* the decided slot is the first of a new day and the load was on the day
\* before
NewDayCase ==
    /\ Decided /\ base.slot > 0
    /\ At(data, base.slot - 1).time.day < base.current.time.day
    /\ WasOn(base.slot - 1)

\* ---- the trading signal
TradingSignalIs(signal) ==
    /\ StrategyRan
    /\ config.tradingSignalEnabled
    /\ base.current.tradingSignal = signal

\* the decision the same cycle returns with the trading switch set to `enabled`
DecisionWithTrading(enabled) ==
    StrategyDecision(base.loadStates, base.slot, data,
                     [config EXCEPT !.tradingSignalEnabled = enabled])

RequestedPower == base.current.tradingSignalRequestedPower

\* the power one slot of a quarter of an hour can take up to maxSoc, and
\* give down to minSoc
ChargeHeadroom == SocEnergy(config.maxSoc - base.current.soc, config)

DischargeHeadroom == SocEnergy(base.current.soc - config.minSoc, config)

\* C16: with trading signals enabled and the signal at overrule with
\* requested power P, the battery power is min(P, maxChargeRate, headroom to
\* maxSoc over a quarter of an hour) for P > 0, minus min(|P|,
\* maxDischargeRate, energy above minSoc over a quarter of an hour) for
\* P < 0, and 0 for P = 0.
OverrulePowerClamped ==
    TradingSignalIs("overrule")
    => decision.batteryPower
       = (IF RequestedPower > 0
          THEN RInt(Max2(0, Min3(RequestedPower, config.maxChargeRate, ChargeHeadroom)))
          ELSE IF RequestedPower < 0
          THEN RInt(-Max2(0, Min3(-RequestedPower, config.maxDischargeRate,
                                  DischargeHeadroom)))
          ELSE RInt(0))

\* an overrule asks for more discharge than the energy above minSoc gives in
\* one slot
OverruleCase ==
    /\ TradingSignalIs("overrule")
    /\ RequestedPower < 0
    /\ DischargeHeadroom > 0
    /\ DischargeHeadroom < Min2(-RequestedPower, config.maxDischargeRate)

\* the series with the trading signal of every slot replaced
WithSignal(series, signal, requestedPower) ==
    [i \in 1..Len(series) |->
        [series[i] EXCEPT !.tradingSignal = signal,
                          !.tradingSignalRequestedPower = requestedPower]]

\* the series the last cycle was called with (the simulator has since written
\* its result into the slot and the SoC into the next one)
SeriesSeen ==
    [i \in 1..Len(data) |->
        IF i = base.slot + 1 THEN base.current
        ELSE IF i = base.slot + 2 THEN [data[i] EXCEPT !.soc = config.initialSoc]
        ELSE data[i]]

OtherSignals == {<<"standby", 0>>, <<"overrule", 6>>, <<"overrule", -4>>}

\* the decision the last cycle returns for the series `series`
DecisionFor(series) ==
    IF engine = "controlCycle" THEN controlCycle(base.slot, series, config)
    ELSE StrategyDecision(base.loadStates, base.slot, series, config)

\* C17: with tradingSignalEnabled false, series that differ only in the
\* trading signal and requested power of their slots give the same decision.
DisabledSignalHasNoInfluence ==
    (Decided /\ ~config.tradingSignalEnabled)
    => LET series == SeriesSeen
       IN \A s \in OtherSignals :
              /\ DecisionFor(WithSignal(series, s[1], s[2])) = decision
              /\ DecisionFor([series EXCEPT ![base.slot + 1] =
                                 WithSignal(series, s[1], s[2])[base.slot + 1]])
                 = decision

\* the switch is off and the slot carries a signal that, with the switch on,
\* would have changed the battery power the strategy's own logic chose
DisabledSignalCase ==
    /\ StrategyRan /\ ~config.tradingSignalEnabled
    /\ base.current.tradingSignal # "local"
    /\ decision.batteryPower # RInt(0)
    /\ DecisionWithTrading(TRUE).batteryPower # decision.batteryPower

\* ---- a battery without a usable range
NoUsableRange ==
    /\ Decided
    /\ config.minSoc = config.maxSoc
    /\ base.current.soc = config.minSoc

\* C18: with minSoc = maxSoc and the SoC at that value, every slot yields a
\* decision whose battery power is 0, whatever the price, the PV generation
\* and the consumption.
NoRangeNoBatteryPower ==
    NoUsableRange => EmittedBatteryPower = RInt(0)

\* both evaluations leave the battery idle and the decision reaches the grid
\* capacity limits with more export than allowed
NoRangeCase ==
    /\ NoUsableRange /\ engine = "controlCycle"
    /\ base.decision.batteryPower = 0
    /\ -BaseGridFlow > config.gridCapacityExportLimit

\* ---- a series that ends inside the forecast horizon
\* the series seen by the last cycle, cut after its first n entries
Truncated(n) == SubSeq(SeriesSeen, 1, n)

\* the lookahead windows of the evaluations, as slices of the forecast
ReservationWindow(forecast) == Slice(forecast, 1, ReservationLookahead + 1)

DischargeWindow(forecast) == Slice(forecast, 1, DischargeLookahead + 1)

WindowCutToSeries(series, n) ==
    LET forecast == Forecast(base.slot, series)
        current == At(series, base.slot)
    IN /\ Len(forecast) = Min2(ForecastHorizon, n - base.slot)
       /\ \A k \in 0..(Len(forecast) - 1) :
              At(forecast, k) = At(series, base.slot + k)
       /\ getNegativePriceLookaheadHorizon(current, config, forecast)
          <= Len(forecast) - 1
       /\ Len(ReservationWindow(forecast))
          = Min2(ReservationLookahead, Len(forecast) - 1)
       /\ Len(DischargeWindow(forecast))
          = Min2(DischargeLookahead, Len(forecast) - 1)
       /\ NegativePriceSlots(current, forecast) \subseteq 0..(Len(forecast) - 1)
       /\ SamePriceSlots(current, forecast) \subseteq 1..(Len(forecast) - 1)

ResidualImportBreachIsBaseline ==
    (Simulated /\ NetGridFlow > config.gridCapacityImportLimit)
    => /\ decision.batteryPower <= 0
       /\ ~decision.loadState
       /\ decision.curtailment = 0

\* the load was on and PV was curtailed when the limits ran; both were given
\* up and the consumption alone still exceeds the import limit
ResidualBreachCase ==
    /\ Simulated /\ NetGridFlow > config.gridCapacityImportLimit
    /\ base.decision.loadState
    /\ base.decision.curtailment > 0
    /\ ~decision.loadState
    /\ decision.curtailment = 0


\* ---- C21
\* the stores a run can find when it starts: empty, the records of an earlier
\* run with the load on or off throughout, or one record for the first slot or
\* for a slot past the end of this run
StartingStores ==
    {<<>>, LeftoverStates,
     [i \in 1..SIMULATION_SLOTS |-> [slotIndex |-> i - 1, loadState |-> FALSE]],
     <<[slotIndex |-> 0, loadState |-> TRUE]>>,
     <<[slotIndex |-> SIMULATION_SLOTS, loadState |-> TRUE]>>}

\* the store after the cycles for the slots 0..n-1 of a run that found `states`
RECURSIVE StoreAfter(_, _)
StoreAfter(states, n) ==
    IF n = 0 THEN states
    ELSE LET before == StoreAfter(states, n - 1)
         IN storeLoadState(before, n - 1,
                           StrategyDecision(before, n - 1, data, config).loadState)

\* the decision such a run takes for slot n
DecisionOfRun(states, n) ==
    StrategyDecision(StoreAfter(states, n), n, data, config)

\* C21: the decision of a run that processes the slots in increasing order is
\* the decision any run over the same series and configuration takes for that
\* slot, whatever records the store held when the run started
RunIndependentOfStartingStore ==
    StrategyRan =>
        \A states \in StartingStores :
            DecisionOfRun(states, base.slot) = decision

\* a run that found the records of an earlier run: the record of slot 0 has been
\* overwritten with "off", the record of the current slot is still the old one,
\* and the decision differs from the one the old records would have given
StartingStoreCase ==
    /\ StrategyRan
    /\ engine = "cost_optimization"
    /\ base.slot = 1
    /\ Len(base.loadStates) = SIMULATION_SLOTS
    /\ ~base.loadStates[1].loadState
    /\ LeftoverStates[1].loadState
    /\ StrategyDecision(LeftoverStates, 1, data, config) # decision


\* ---- C22: PV-surplus charging
\* the forecast window the last cycle read
ForecastSeen == Forecast(base.slot, SeriesSeen)

\* the outcome of the charge evaluation of the last cycle
ChargeEvaluation ==
    IF engine = "controlCycle"
    THEN ToRational(shouldChargeNow(base.current, config, ForecastSeen))
    ELSE costOptimization_shouldChargeNow(base.current, config, ForecastSeen)

\* the battery power of the decision before the grid capacity limits
DecidedBatteryPower ==
    IF engine = "controlCycle" THEN RInt(base.decision.batteryPower)
    ELSE decision.batteryPower

\* the slots the reservation step charges for, and their deficit D
QualifyingSlots ==
    MoreExpensiveSlots(ReservationWindow(ForecastSeen), base.current, config)

ReservationDeficit ==
    TotalDeficit(QualifyingSlots, 0, SocEnergy(config.maxSoc - base.current.soc, config))

\* E = max(0, min(D - B, headroom)), in quarter-kWh
ReservationPreCharge ==
    Max2(0, Min2(ReservationDeficit
                 - SocEnergy(base.current.soc - config.minSoc, config),
                 SocEnergy(config.maxSoc - base.current.soc, config)))

AffordablePvSurplus ==
    getAffordablePvGeneration(base.current, config, base.current.consumptionPrice)
    - base.current.consumption

\* no earlier charge rule produces a charge
NoEarlierChargeRule ==
    /\ LoadPolicyRan
    /\ ~(engine = "cost_optimization" /\ config.tradingSignalEnabled
         /\ base.current.tradingSignal # "local")
    /\ base.current.soc < config.maxSoc
    /\ base.current.consumptionPrice >= 0
    /\ FirstNegativeSlot(ForecastSeen,
           getNegativePriceLookaheadHorizon(base.current, config, ForecastSeen)) <= 0
    /\ ReservationPreCharge = 0

\* C22: when no earlier charge rule produces a charge and the affordable PV
\* exceeds the consumption, the battery charges at
\* min(affordable PV - consumption, maxChargeRate).
PvSurplusCharges ==
    (NoEarlierChargeRule /\ AffordablePvSurplus > 0)
    => /\ ChargeEvaluation.power
          = RInt(Min2(AffordablePvSurplus, config.maxChargeRate))
       /\ DecidedBatteryPower = ChargeEvaluation.power

\* the battery already holds the deficit of the dearer slots ahead: the
\* reservation step asks for nothing, and there is affordable PV left over
PvSurplusCase ==
    /\ NoEarlierChargeRule /\ AffordablePvSurplus > 0
    /\ ReservationDeficit > 0
    /\ ChargeEvaluation.power = RInt(0)

\* the rest of the rule: with no deficit ahead the surplus is charged
PvSurplusChargesWithoutDeficit ==
    (NoEarlierChargeRule /\ AffordablePvSurplus > 0 /\ ReservationDeficit = 0)
    => /\ ChargeEvaluation.power
          = RInt(Min2(AffordablePvSurplus, config.maxChargeRate))
       /\ DecidedBatteryPower = ChargeEvaluation.power


\* ---- C23: a negative consumption price inside the dynamic horizon
EnergyAboveMinSoc == SocEnergy(base.current.soc - config.minSoc, config)

\* min(maxDischargeRate, gridCapacityExportLimit); its energy per slot in
\* quarter-kWh is the same number
ExportablePower == Min2(config.maxDischargeRate, config.gridCapacityExportLimit)

\* H = min(ceil(energy above minSoc / (power * 0.25)), forecast length - 1)
DynamicHorizon ==
    IF ExportablePower = 0 THEN 0
    ELSE Min2(CeilDiv(EnergyAboveMinSoc, ExportablePower), Len(ForecastSeen) - 1)

NegativePriceAhead ==
    /\ LoadPolicyRan
    /\ ~(engine = "cost_optimization" /\ config.tradingSignalEnabled
         /\ base.current.tradingSignal # "local")
    /\ base.current.consumptionPrice >= 0
    /\ \E i \in 1..DynamicHorizon : At(ForecastSeen, i).consumptionPrice < 0

DischargeEvaluation ==
    IF engine = "controlCycle"
    THEN shouldDischargeNow(base.current, config, ForecastSeen)
    ELSE costOptimization_shouldDischargeNow(base.current, config, ForecastSeen)

\* C23: with a consumption price >= 0 now and a negative one among the next H
\* slots, the charge evaluation returns 0; if moreover the injection price is
\* positive and the SoC above minSoc, the discharge evaluation returns
\* min(maxDischargeRate, gridCapacityExportLimit, energy above minSoc / 0.25 h).
EmptiesBeforeNegativePrice ==
    NegativePriceAhead
    => /\ ChargeEvaluation.power = RInt(0)
       /\ (base.current.injectionPrice > 0 /\ base.current.soc > config.minSoc)
          => /\ DischargeEvaluation.power
                = Min3(config.maxDischargeRate, config.gridCapacityExportLimit,
                       EnergyAboveMinSoc)
             /\ DecidedBatteryPower = RInt(-DischargeEvaluation.power)

\* the battery is emptied ahead of the negative price, and the energy it holds
\* is what limits the power
EmptiesBeforeNegativePriceCase ==
    /\ NegativePriceAhead
    /\ base.current.injectionPrice > 0
    /\ base.current.soc < config.maxSoc
    /\ DischargeEvaluation.power = EnergyAboveMinSoc
    /\ DischargeEvaluation.power < ExportablePower
    /\ DecidedBatteryPower = RInt(-EnergyAboveMinSoc)


\* ---- C24: when the battery pre-charges for a future deficit
\* the lookahead run: the slots after now, at most 32, up to but excluding the
\* first slot cheaper than the current one
LookaheadRun ==
    {i \in 1..Min2(ReservationLookahead, Len(ForecastSeen) - 1) :
        \A j \in 1..i :
            At(ForecastSeen, j).consumptionPrice >= base.current.consumptionPrice}

\* consumptionPrice - currentPrice / efficiency >= minPriceDifference, the
\* efficiency being a percentage in the model
WorthPreCharging(i) ==
    At(ForecastSeen, i).consumptionPrice * config.batteryRoundTripEfficiency
        - base.current.consumptionPrice * 100
    >= config.batteryMinPriceDifference * config.batteryRoundTripEfficiency

\* the charge evaluation charges under its future-deficit rule
PreCharges ==
    /\ LoadPolicyRan
    /\ RLt(RInt(0), ChargeEvaluation.power)
    /\ ChargeEvaluation.reason[1][1] = "charge for future deficit of (kWh/4)"

\* C24: the battery pre-charges for a future deficit only if a slot of the
\* lookahead run clears the price difference; it never does when the next slot
\* is cheaper than the current one.
PreChargeOnlyForDearerSlots ==
    PreCharges
    => /\ \E i \in LookaheadRun : WorthPreCharging(i)
       /\ At(ForecastSeen, 1).consumptionPrice >= base.current.consumptionPrice
       /\ DecidedBatteryPower = ChargeEvaluation.power

\* a pre-charge for a dearer slot, with the run cut short by a cheaper slot
PreChargeCase ==
    /\ PreCharges
    /\ Cardinality(LookaheadRun) < Len(ForecastSeen) - 1


\* ---- C25: the energy to pre-charge
BatteryHeadroom == SocEnergy(config.maxSoc - base.current.soc, config)

\* D: the deficit (consumption - forecast PV) of the qualifying slots from slot
\* i on, offset by the PV surplus `buffer` the earlier qualifying slots left
RECURSIVE BufferedDeficit(_, _)
BufferedDeficit(i, buffer) ==
    IF i > Len(ForecastSeen) - 1 THEN 0
    ELSE IF ~(i \in LookaheadRun /\ WorthPreCharging(i))
    THEN BufferedDeficit(i + 1, buffer)
    ELSE LET net == At(ForecastSeen, i).consumption - At(ForecastSeen, i).pvForecast
         IN IF net <= 0
            THEN BufferedDeficit(i + 1, Min2(buffer - net, BatteryHeadroom))
            ELSE Max2(0, net - buffer) + BufferedDeficit(i + 1, Max2(0, buffer - net))

\* E = max(0, min(D - B, headroom)), in quarter-kWh: E / 0.25 h is the same number
EnergyToPreCharge ==
    Max2(0, Min2(BufferedDeficit(1, 0) - EnergyAboveMinSoc, BatteryHeadroom))

\* the charge evaluation returns under its future-deficit rule
ReservationRuleTaken ==
    /\ LoadPolicyRan
    /\ ChargeEvaluation.reason[1][1] = "charge for future deficit of (kWh/4)"

\* C25: in reservation-based charging the energy to pre-charge is
\* E = max(0, min(D - B, headroom)), and the charge power of the slot never
\* exceeds min(E / 0.25 h, maxChargeRate).
PreChargeEnergy ==
    ReservationRuleTaken
    => /\ ChargeEvaluation.reason[1][2] = EnergyToPreCharge
       /\ RLe(RInt(0), ChargeEvaluation.power)
       /\ RLe(ChargeEvaluation.power,
              RInt(Min2(EnergyToPreCharge, config.maxChargeRate)))
       /\ RLt(RInt(0), ChargeEvaluation.power)
          => DecidedBatteryPower = ChargeEvaluation.power

\* the PV surplus of a qualifying slot covers part of the deficit of a later
\* one, and the rest is pre-charged
PreChargeEnergyCase ==
    /\ PreCharges
    /\ engine = "cost_optimization"
    /\ \E i \in LookaheadRun :
          /\ WorthPreCharging(i)
          /\ At(ForecastSeen, i).consumption < At(ForecastSeen, i).pvForecast
    /\ BufferedDeficit(1, 0) > 0
    /\ EnergyToPreCharge > 0
    /\ EnergyToPreCharge < config.maxChargeRate


\* ---- C26: negative-price charging over the run of negative-price slots
NegativePriceChargingRan ==
    /\ Decided /\ engine = "cost_optimization"
    /\ ~(config.tradingSignalEnabled /\ base.current.tradingSignal # "local")
    /\ base.current.soc < config.maxSoc
    /\ base.current.consumptionPrice < 0

\* the energy the plan assigns over all slots of the run, in quarter-kWh
AssignedEnergy ==
    RSub(RInt(BatteryHeadroom),
         NegativePricePlan(base.current, config, ForecastSeen).st.remainingEnergy)

MentionsDeferral(reason) ==
    \E k \in 1..Len(reason) : reason[k][1] = "negative price: defer charging to (slots)"

\* C26: in negative-price charging the power of the current slot never exceeds
\* min(maxChargeRate, max(0, gridCapacityImportLimit - consumption -
\* loadNominalPower)), the energy assigned over the run never exceeds the
\* headroom to maxSoc, and a current share of zero gives power 0 with a
\* 'defer charging' reason.
NegativePriceChargeBounded ==
    NegativePriceChargingRan
    => /\ RLe(RInt(0), ChargeEvaluation.power)
       /\ RLe(ChargeEvaluation.power,
              RInt(Min2(config.maxChargeRate,
                        Max2(0, config.gridCapacityImportLimit
                                - base.current.consumption - config.loadNominalPower))))
       /\ RLe(RInt(0), AssignedEnergy)
       /\ RLe(AssignedEnergy, RInt(BatteryHeadroom))
       /\ ChargeEvaluation.power = RInt(0)
          => /\ decision.batteryPower = RInt(0)
             /\ MentionsDeferral(ChargeEvaluation.reason)
             /\ MentionsDeferral(decision.batteryDecisionReason)
       /\ RLt(RInt(0), ChargeEvaluation.power)
          => /\ decision.batteryPower = ChargeEvaluation.power
             /\ ~MentionsDeferral(decision.batteryDecisionReason)

\* the cheaper slots later in the run take the whole headroom: the current slot,
\* which has grid capacity left, is deferred
NegativePriceChargeBoundedCase ==
    /\ NegativePriceChargingRan
    /\ \E i \in NegativePriceSlots(base.current, ForecastSeen) :
          At(ForecastSeen, i).consumptionPrice < base.current.consumptionPrice
    /\ config.gridCapacityImportLimit - base.current.consumption
       - config.loadNominalPower > 0
    /\ AssignedEnergy = RInt(BatteryHeadroom)
    /\ ChargeEvaluation.power = RInt(0)
    /\ MentionsDeferral(decision.batteryDecisionReason)


\* ---- C27: the order of the rules of the load policy
PolicyLoadReason ==
    IF engine = "controlCycle" THEN base.decision.loadDecisionReason
    ELSE decision.loadDecisionReason

MinimumActivationPending ==
    PolicyPrevLoad /\ PolicyActivationRuntime < config.loadMinRuntimeActivation

SelectedForDailyRuntime ==
    SlotsStillNeeded > 0 /\ InSeq(base.slot, PolicySelectedSlots)

\* C27: the load policy returns the result of the first matching rule: on at a
\* negative consumption price; else on if the load was on in the previous slot
\* with an activation runtime below loadMinRuntimeActivation; else on if slots
\* are still needed today and the current slot is selected; else off, also
\* when the load was on in the previous slot.
LoadRulesInOrder ==
    LoadPolicyRan
    => IF base.current.consumptionPrice < 0
       THEN PolicyLoadState /\ PolicyLoadReason = Txt("negative consumption price")
       ELSE IF MinimumActivationPending
       THEN PolicyLoadState /\ PolicyLoadReason = Txt("minimum activation runtime")
       ELSE IF SelectedForDailyRuntime
       THEN /\ PolicyLoadState
            /\ PolicyLoadReason \in
                   {Txt("pv oversupply (selected for min daily runtime)"),
                    Txt("selected for min daily runtime (cheapest slot)")}
       ELSE ~PolicyLoadState
            /\ PolicyLoadReason = Txt("not selected for min daily runtime")

\* the load was on in the previous slot, has run its minimum activation
\* runtime and is not selected: it is switched off
LoadRulesInOrderCase ==
    /\ LoadPolicyRan
    /\ base.current.consumptionPrice >= 0
    /\ PolicyPrevLoad
    /\ ~MinimumActivationPending
    /\ ~SelectedForDailyRuntime
    /\ ~PolicyLoadState


\* ---- C28: PV-surplus slots are selected first
\* the remaining slots whose affordable PV exceeds the consumption by at least
\* loadActivationPower
SurplusSlots ==
    {i \in RemainingSlots :
        getAffordablePvGeneration(PointAt(i), config, PointAt(i).consumptionPrice)
            - PointAt(i).consumption
        >= config.loadActivationPower}

ChosenSlots == {PolicySelectedSlots[k] : k \in 1..Len(PolicySelectedSlots)}

\* C28: a slot without PV surplus is selected only if the surplus slots number
\* fewer than the slots still needed, in which case every surplus slot is
\* selected; the selected set never holds more slots than are still needed.
SurplusSlotsFirst ==
    LoadPolicyRan
    => LET chosen == ChosenSlots
           needed == SlotsStillNeeded
       IN /\ chosen \subseteq RemainingSlots
          /\ Cardinality(chosen) = Len(PolicySelectedSlots)
          /\ Cardinality(chosen) <= Max2(0, needed)
          /\ Cardinality(chosen) = Min2(Max2(0, needed), Cardinality(RemainingSlots))
          /\ (chosen \ SurplusSlots # {})
             => /\ Cardinality(SurplusSlots) < needed
                /\ SurplusSlots \subseteq chosen

\* one slot is needed: the later slot with PV surplus is selected and the
\* cheaper current slot, without surplus, is not
SurplusSlotsFirstCase ==
    /\ LoadPolicyRan
    /\ SlotsStillNeeded = 1
    /\ ~(base.slot \in SurplusSlots)
    /\ ~(base.slot \in ChosenSlots)
    /\ \E i \in ChosenSlots :
          /\ i \in SurplusSlots
          /\ base.current.consumptionPrice < PointAt(i).consumptionPrice


\* ---- C29: the order of the steps in the import direction
ImportLimited == Simulated /\ ExcessImport > 0

\* the flow of the slot for a load state, battery power and curtailment
FlowWith(loadState, batteryPower, curtailment) ==
    base.current.consumption
    + (IF loadState THEN config.loadNominalPower ELSE 0)
    + batteryPower - base.current.pvGeneration + curtailment

LoadSwitchedOff == base.decision.loadState /\ ~decision.loadState

CurtailmentReduced == decision.curtailment < base.decision.curtailment

\* the first two steps: the load is switched off exactly if it was on and the
\* flow with the reduced charge power still exceeds the limit
LoadOffOnlyAfterCharging ==
    ImportLimited
    => /\ decision.batteryPower
          = base.decision.batteryPower
            - Max2(0, Min2(ExcessImport, base.decision.batteryPower))
       /\ LoadSwitchedOff
          <=> /\ base.decision.loadState
              /\ FlowWith(TRUE, decision.batteryPower, base.decision.curtailment)
                 > config.gridCapacityImportLimit

\* C29: in the import direction the load is switched off only if removing all
\* charging was not enough, and the curtailment is reduced only if the flow
\* recomputed from the decision as adjusted so far, with the load already
\* off, still exceeds the import limit.
ImportStepsInOrder ==
    ImportLimited
    => /\ LoadSwitchedOff
          => FlowWith(TRUE, Min2(0, base.decision.batteryPower),
                      base.decision.curtailment)
             > config.gridCapacityImportLimit
       /\ CurtailmentReduced
          => FlowWith(decision.loadState, decision.batteryPower,
                      base.decision.curtailment)
             > config.gridCapacityImportLimit

\* switching the load off brought the flow under the import limit, and the
\* curtailment was reduced all the same
ImportStepsCase ==
    /\ ImportLimited
    /\ LoadSwitchedOff
    /\ FlowWith(FALSE, decision.batteryPower, base.decision.curtailment)
       <= config.gridCapacityImportLimit
    /\ CurtailmentReduced


\* the rest of the order: when the load was not switched off by the second
\* step, the curtailment is reduced only if the adjusted flow exceeds the limit
ImportStepsInOrderWithoutLoadSwitch ==
    (ImportLimited /\ ~LoadSwitchedOff) => ImportStepsInOrder


\* ---- C30: the steps in the export direction
ExcessExport == -BaseGridFlow - config.gridCapacityExportLimit

ExportLimited ==
    /\ Simulated /\ BaseGridFlow < 0 /\ ExcessExport > 0
    /\ base.current.consumption >= 0
    /\ base.decision.curtailment >= 0
    /\ base.decision.curtailment <= base.current.pvGeneration

\* the net export of a flow
ExportOf(flow) == Max2(0, -flow)

\* C30: when the base decision's flow is a net export above the export limit,
\* the charge power is raised up to maxChargeRate, then the load is switched
\* on, then the curtailment is raised up to pvGeneration, each only if the
\* export as adjusted so far still exceeds the limit, and the resulting net
\* export never exceeds gridCapacityExportLimit.
ExportStepsInOrder ==
    ExportLimited
    => LET charged == base.decision.batteryPower
                      + Max2(0, Min2(ExcessExport,
                                     config.maxChargeRate - base.decision.batteryPower))
           afterBattery == FlowWith(base.decision.loadState, charged,
                                    base.decision.curtailment)
           loadOn == base.decision.loadState
                     \/ ExportOf(afterBattery) > config.gridCapacityExportLimit
           afterLoad == FlowWith(loadOn, charged, base.decision.curtailment)
           stillExcess == ExportOf(afterLoad) - config.gridCapacityExportLimit
       IN /\ decision.batteryPower = charged
          /\ decision.loadState = loadOn
          /\ decision.curtailment
             = base.decision.curtailment
               + Max2(0, Min2(stillExcess,
                              base.current.pvGeneration - base.decision.curtailment))
          /\ decision.curtailment <= base.current.pvGeneration
          /\ ExportOf(NetGridFlow) <= config.gridCapacityExportLimit

\* all three steps are needed: the battery is raised to maxChargeRate, the load
\* is switched on and part of the PV is curtailed
ExportStepsCase ==
    /\ ExportLimited
    /\ decision.batteryPower = config.maxChargeRate
    /\ decision.batteryPower > base.decision.batteryPower
    /\ ~base.decision.loadState /\ decision.loadState
    /\ decision.curtailment > base.decision.curtailment
    /\ ExportOf(NetGridFlow) = config.gridCapacityExportLimit

\* ------------------------------------------------------------------- C31
\* the injection price of the decided slot is negative, its consumption price
\* is not
InjectionPriceNegativeOnly ==
    Decided /\ base.current.consumptionPrice >= 0 /\ base.current.injectionPrice < 0

\* a setpoint is the total power limit of the PV inverters (schema.ts): the PV
\* it admits is the generation up to that limit
AdmittedPv ==
    RMin(RInt(base.current.pvGeneration), decision.pvActivePowerSetpoint)

\* the net grid flow of the emitted decision as a rational, whichever engine
\* made it
EmittedGridFlow ==
    IF engine = "controlCycle" THEN RInt(NetGridFlow)
    ELSE RSub(RAdd(RInt(base.current.consumption
                        + (IF decision.loadState THEN config.loadNominalPower ELSE 0)),
                   decision.batteryPower),
              AdmittedPv)

\* C31: when the injection price is negative and the consumption price is
\* not, the emitted decision never results in a net export: the PV admitted by
\* the setpoint or the curtailment is at most consumption + battery power +
\* load power, so the net grid flow is >= 0.
NoExportAtNegativeInjectionPrice ==
    InjectionPriceNegativeOnly => RLe(RInt(0), EmittedGridFlow)

\* a strategy met a PV generation above the effective consumption at a
\* negative injection price
NegativeInjectionPriceCase ==
    /\ StrategyRan /\ InjectionPriceNegativeOnly
    /\ RLt(RAdd(RInt(base.current.consumption
                     + (IF decision.loadState THEN config.loadNominalPower ELSE 0)),
                decision.batteryPower),
           RInt(base.current.pvGeneration))

\* calculatePvCurtailment curtails the PV beyond the effective consumption: the
\* base decision of controlCycle does not export
NoExportBeforeLimits ==
    (Simulated /\ InjectionPriceNegativeOnly) => BaseGridFlow >= 0

\* the statement of C31 for controlCycle alone; the import branch of
\* applyGridCapacityLimits switches the load off without looking at the PV, and
\* this does not hold
NoExportAfterLimits ==
    (Simulated /\ InjectionPriceNegativeOnly) => NetGridFlow >= 0

\* the statement of C31 for the strategies alone; the setpoint admits the
\* excess itself, and this does not hold
NoExportAfterSetpoint ==
    (StrategyRan /\ InjectionPriceNegativeOnly) => RLe(RInt(0), EmittedGridFlow)

\* controlCycle curtailed at a negative injection price
CurtailedAtNegativeInjectionPrice ==
    Simulated /\ InjectionPriceNegativeOnly /\ decision.curtailment > 0

\* ------------------------------------------------------------------- C32
\* currentGridPower of peakShavingControlCycle for slot i of the series
GridPowerAt(i) == At(data, i).consumption - At(data, i).pvGeneration

\* no trading signal takes the slot over: the thresholds decide
ThresholdsDecide(i) == ~TradingCharge(At(data, i), config).handled

\* what peakShavingBatteryControl returned for the slot before the decided one
PreviousPeakShaving ==
    peakShavingBatteryControl(At(data, base.slot - 1), config, GridPowerAt(base.slot - 1))

\* peak shaving decided this slot by its thresholds, at a SoC strictly between
\* the bounds, after a slot it had decided by its thresholds as well
PeakShavingFollowsOn ==
    /\ engine = "peak_shaving" /\ Decided /\ base.slot >= 1
    /\ ThresholdsDecide(base.slot - 1) /\ ThresholdsDecide(base.slot)
    /\ base.current.soc > config.minSoc /\ base.current.soc < config.maxSoc

\* the battery started discharging in the slot before, and the grid power has
\* not fallen below the stop threshold
DischargeStartedAndNotStopped ==
    /\ PeakShavingFollowsOn
    /\ PreviousPeakShaving.power < 0
    /\ GridPowerAt(base.slot) >= config.peakShavingDischargeStop

\* the battery started charging in the slot before, and the grid power has not
\* risen above the stop threshold
ChargeStartedAndNotStopped ==
    /\ PeakShavingFollowsOn
    /\ PreviousPeakShaving.power > 0
    /\ GridPowerAt(base.slot) <= config.peakShavingChargeStop

\* C32: under peak shaving with the SoC strictly between minSoc and maxSoc, a
\* battery that started discharging because the grid power exceeded
\* peakShavingDischargeStart keeps discharging in the following slot while
\* the grid power stays at or above peakShavingDischargeStop, and a battery
\* that started charging keeps charging while the grid power stays at or
\* below peakShavingChargeStop.
PeakShavingHysteresis ==
    /\ DischargeStartedAndNotStopped => RLt(decision.batteryPower, RInt(0))
    /\ ChargeStartedAndNotStopped => RLt(RInt(0), decision.batteryPower)

\* the grid power came down from above the start threshold into the band
\* between the stop and the start threshold
HysteresisBandCase ==
    /\ DischargeStartedAndNotStopped
    /\ GridPowerAt(base.slot) <= config.peakShavingDischargeStart

\* the same for charging: the grid power rose into the band between the
\* charge start and the charge stop threshold
ChargeBandCase ==
    /\ ChargeStartedAndNotStopped
    /\ GridPowerAt(base.slot) >= config.peakShavingChargeStart

\* what the code does instead: whatever the slot before, the thresholds
\* discharge exactly when the grid power is above the start threshold and
\* charge exactly when it is below the charge start threshold
PeakShavingIsStateless ==
    (/\ engine = "peak_shaving" /\ Decided /\ ThresholdsDecide(base.slot)
     /\ base.current.soc > config.minSoc /\ base.current.soc < config.maxSoc)
    => /\ RLt(decision.batteryPower, RInt(0))
          <=> GridPowerAt(base.slot) > config.peakShavingDischargeStart
       /\ RLt(RInt(0), decision.batteryPower)
          <=> GridPowerAt(base.slot) < config.peakShavingChargeStart

\* ------------------------------------------------------------------- C33
\* peak shaving decided the slot with the trading signals disabled, for a
\* battery with a usable SoC range
PeakShavingWithoutTrading ==
    /\ engine = "peak_shaving" /\ Decided
    /\ ~config.tradingSignalEnabled
    /\ config.minSoc < config.maxSoc

\* an empty battery that the thresholds ask to charge
EmptyAndBelowChargeStart ==
    /\ PeakShavingWithoutTrading
    /\ base.current.soc <= config.minSoc
    /\ GridPowerAt(base.slot) < config.peakShavingChargeStart

\* a full battery that the thresholds ask to discharge
FullAndAboveDischargeStart ==
    /\ PeakShavingWithoutTrading
    /\ base.current.soc >= config.maxSoc
    /\ GridPowerAt(base.slot) > config.peakShavingDischargeStart

\* C33: under peak shaving with the trading signals disabled an SoC bound
\* blocks only the matching direction: a battery at SoC <= minSoc still
\* charges when the grid power is below peakShavingChargeStart, and a battery
\* at SoC >= maxSoc still discharges when the grid power is above
\* peakShavingDischargeStart.
SocBoundBlocksOneDirection ==
    /\ EmptyAndBelowChargeStart => RLt(RInt(0), decision.batteryPower)
    /\ FullAndAboveDischargeStart => RLt(decision.batteryPower, RInt(0))

\* the empty battery met a grid power below the charge start threshold
EmptyBatteryCase == EmptyAndBelowChargeStart /\ base.slot >= 1

\* what the code does instead: at either bound the battery is idle whatever
\* the grid power, and an idle battery stays at its bound
IdleAtEitherBound ==
    (/\ PeakShavingWithoutTrading
     /\ base.current.soc <= config.minSoc \/ base.current.soc >= config.maxSoc)
    => /\ decision.batteryPower = RInt(0)
       /\ decision.batteryDecisionReason
              \in {Txt("battery empty (peak shaving)"), Txt("battery full (peak shaving)")}

\* ------------------------------------------------------------------- C34
\* C34: the emitted battery power is feasible for the SoC it was decided at:
\* a charge power over a quarter of an hour is at most the headroom to maxSoc,
\* a discharge power over a quarter of an hour at most the energy above
\* minSoc, so that the SoC clamp of the caller never discards energy.
BatteryPowerFeasible ==
    Decided
    => /\ RLe(EmittedBatteryPower, RInt(Max2(0, ChargeHeadroom)))
       /\ RLe(RInt(-Max2(0, DischargeHeadroom)), EmittedBatteryPower)

\* the simulator clamped the SoC of a slot: part of the energy that its net
\* power and cost count never reached or left the battery
ClampDiscardedEnergy ==
    /\ Simulated
    /\ At(data, base.slot).soc
       # base.current.soc + SocChange(decision.batteryPower, config)

\* the statement of C34 for each engine alone
FeasibleInSimulator == Simulated => BatteryPowerFeasible

FeasibleInCostOptimization == engine = "cost_optimization" => BatteryPowerFeasible

FeasibleInPeakShaving == engine = "peak_shaving" => BatteryPowerFeasible

\* the statement of C34 for the base decision of controlCycle, before the grid
\* capacity limits
BaseDecisionFeasible ==
    Simulated
    => /\ base.decision.batteryPower <= Max2(0, ChargeHeadroom)
       /\ -base.decision.batteryPower <= Max2(0, DischargeHeadroom)

\* the thresholds of peak shaving stay within the energy of the battery
PeakShavingThresholdsFeasible ==
    (engine = "peak_shaving" /\ Decided /\ ThresholdsDecide(base.slot))
    => BatteryPowerFeasible

\* the export branch of the grid capacity limits told a full battery to charge
FullBatteryToldToCharge ==
    /\ Simulated
    /\ base.current.soc = config.maxSoc
    /\ base.decision.batteryPower = 0 /\ decision.batteryPower > 0

\* ------------------------------------------------------------------- C35
\* the flow of the base decision lies within the grid capacity limits
BaseFlowWithinLimits ==
    /\ BaseGridFlow <= config.gridCapacityImportLimit
    /\ BaseGridFlow >= -config.gridCapacityExportLimit

\* C35: applyGridCapacityLimits leaves the decision unchanged (battery power,
\* load state, curtailment and the three reasons) whenever the net flow of
\* the base decision already lies within
\* [-gridCapacityExportLimit, gridCapacityImportLimit].
WithinLimitsUnchanged ==
    (Simulated /\ BaseFlowWithinLimits) => decision = base.decision

\* the base decision charges and imports exactly at the import limit, or
\* exports exactly at the export limit with room left to charge
AtTheLimitCase ==
    /\ Simulated /\ decision = base.decision
    /\ \/ /\ BaseGridFlow = config.gridCapacityImportLimit
          /\ base.decision.batteryPower > 0
       \/ /\ BaseGridFlow < 0
          /\ BaseGridFlow = -config.gridCapacityExportLimit
          /\ base.decision.batteryPower < config.maxChargeRate

\* ------------------------------------------------------------------- C36
\* the reason `before` is a prefix of the reason `after`
IsPrefix(before, after) ==
    /\ Len(before) <= Len(after)
    /\ SubSeq(after, 1, Len(before)) = before

\* C36: applyGridCapacityLimits only appends to the reasons: after it each of
\* the battery, load and curtailment reasons has the reason of the base
\* decision as a prefix, and a reason has grown only if the field it explains
\* was adjusted.
ReasonsOnlyAppended ==
    Simulated
    => /\ IsPrefix(base.decision.batteryDecisionReason, decision.batteryDecisionReason)
       /\ IsPrefix(base.decision.loadDecisionReason, decision.loadDecisionReason)
       /\ IsPrefix(base.decision.curtailmentDecisionReason,
                   decision.curtailmentDecisionReason)
       /\ decision.batteryDecisionReason # base.decision.batteryDecisionReason
          => decision.batteryPower # base.decision.batteryPower
       /\ decision.loadDecisionReason # base.decision.loadDecisionReason
          => decision.loadState # base.decision.loadState
       /\ decision.curtailmentDecisionReason # base.decision.curtailmentDecisionReason
          => decision.curtailment # base.decision.curtailment

\* the load was switched and its reason grew while another reason, of a field
\* that was left alone, stayed as it was
ReasonsAppendedCase ==
    /\ Simulated
    /\ base.decision.loadDecisionReason # <<>>
    /\ Len(decision.loadDecisionReason) > Len(base.decision.loadDecisionReason)
    /\ decision.curtailment = base.decision.curtailment
    /\ decision.curtailmentDecisionReason = base.decision.curtailmentDecisionReason

\* all three fields were adjusted in one pass, and all three reasons grew
AllReasonsAppendedCase ==
    /\ Simulated
    /\ Len(decision.batteryDecisionReason) > Len(base.decision.batteryDecisionReason)
    /\ Len(decision.loadDecisionReason) > Len(base.decision.loadDecisionReason)
    /\ Len(decision.curtailmentDecisionReason)
       > Len(base.decision.curtailmentDecisionReason)

\* ------------------------------------------------------------------- C37
\* C37: the emitted curtailment satisfies 0 <= curtailment <= pvGeneration,
\* in the base decision and after the grid capacity limits.
CurtailmentWithinGeneration ==
    Simulated
    => /\ 0 <= base.decision.curtailment
       /\ base.decision.curtailment <= base.current.pvGeneration
       /\ 0 <= decision.curtailment
       /\ decision.curtailment <= base.current.pvGeneration


\* the export branch raised the curtailment of the base decision
CurtailmentRaisedCase ==
    /\ Simulated
    /\ decision.curtailment > base.decision.curtailment

\* the base decision curtailed the whole PV generation, and the import branch
\* released all of it
CurtailmentReleasedCase ==
    /\ Simulated
    /\ base.current.pvGeneration > 0
    /\ base.decision.curtailment = base.current.pvGeneration
    /\ decision.curtailment = 0

\* at a negative injection price the PV stays below the effective consumption
\* and nothing is curtailed
NothingToCurtailCase ==
    /\ Simulated /\ InjectionPriceNegativeOnly
    /\ base.current.pvGeneration > 0
    /\ base.decision.curtailment = 0
    /\ base.current.pvGeneration
       < base.current.consumption + base.decision.batteryPower
         + (IF base.decision.loadState THEN config.loadNominalPower ELSE 0)

\* ------------------------------------------------------------------- C38
\* a run of the interval-driven simulator has been started
IntervalRunStarted ==
    engine = "BatterySimulator" /\ simulator.simulationData # <<>>

\* C38: between start and stop every slot of the interval-driven simulator is
\* processed exactly once and in increasing order, whatever the interleaving
\* of timer ticks and effects: the slots before the current one have had
\* their SoC update and cost applied once, the current one at most once and
\* the later ones not yet.
EachSlotProcessedOnce ==
    IntervalRunStarted
    => \A i \in DOMAIN simulator.processed :
           /\ simulator.processed[i] <= 1
           /\ i < simulator.currentSlot => simulator.processed[i] = 1
           /\ i > simulator.currentSlot => simulator.processed[i] = 0

\* the run has moved on past a slot that it processed
SlotProcessedCase ==
    /\ IntervalRunStarted /\ simulator.isRunning
    /\ simulator.currentSlot >= 1
    /\ simulator.processed[simulator.currentSlot - 1] >= 1
    /\ simulator.processed[simulator.currentSlot] = 1

\* the effect ran twice for the first slot: the SoC moved by twice the change
\* of the slot, and the total cost holds the cost of the slot twice
FirstSlotAppliedTwice ==
    /\ IntervalRunStarted /\ simulator.isRunning
    /\ simulator.currentSlot = 0 /\ simulator.processed[0] = 2
    /\ LET current == At(simulator.simulationData, 0)
           socChange == RDiv(RMul(current.batteryPower, RInt(25)),
                             RInt(simulator.config.batteryCapacity))
       IN /\ RLt(RInt(0), current.cost)
          /\ simulator.totalCost = RMul(RInt(2), current.cost)
          /\ socChange # RInt(0)
          /\ current.soc = RAdd(RInt(simulator.config.initialSoc),
                                RMul(RInt(2), socChange))

\* what does hold: the slots are taken in increasing order, none is skipped,
\* and no slot after the current one has been touched
SlotsProcessedInOrder ==
    IntervalRunStarted
    => \A i \in DOMAIN simulator.processed :
           /\ i < simulator.currentSlot => simulator.processed[i] >= 1
           /\ i > simulator.currentSlot => simulator.processed[i] = 0

\* what does hold: a tick at the last slot stops the run, so the current slot
\* never leaves the data and the interval is set only while the run is on
RunStopsAfterLastSlot ==
    IntervalRunStarted
    => /\ simulator.currentSlot < Len(simulator.simulationData)
       /\ simulator.intervalRef = simulator.isRunning

\* the run was stopped by the tick at the last slot
StoppedAfterLastSlot ==
    /\ IntervalRunStarted /\ ~simulator.isRunning
    /\ simulator.currentSlot = Len(simulator.simulationData) - 1
    /\ \A i \in DOMAIN simulator.processed : simulator.processed[i] >= 1

====
